---- MODULE Spec2Model ----
(***************************************************************************)
(* A model of tencentcloud-sms-sdk-rust: the TC3-HMAC-SHA256 signer        *)
(* (src/src/core/signature.rs), the Credential (src/src/core/credential.rs)*)
(* the Client with its profile, its setters and its handling of the reply  *)
(* (src/src/core/client.rs, src/src/core/profile.rs) and the request and   *)
(* response types of the SMS service (src/src/sms/models.rs).              *)
(*                                                                         *)
(* Representation.  A Rust String / &str is a sequence of one-character    *)
(* strings, <<"a", "=", "1">> for "a=1"; bytes are ordered by their ASCII  *)
(* code (Code), the order of Rust's String::cmp.  Where digests are only   *)
(* passed on (canonical request, string to sign, key chain), the output of *)
(* SHA-256 and HMAC-SHA256 is a symbolic term, an injective constructor    *)
(* over its inputs, written as one element "{sha256:...}" or               *)
(* "{hmac:...|...}" of a sequence.  The braces and the bar occur in no     *)
(* input of the model, so two terms are equal exactly when they were built *)
(* from equal inputs (for HMAC: from equal key blocks and messages).       *)
(* Where the digits of a digest matter (hash_payload), SHA-256 and the hex *)
(* encoding are computed.  HashMap<String, String> is a function from its  *)
(* keys to its values, and the order in which a HashMap is iterated is a   *)
(* permutation of its keys that every call chooses afresh.  DateTime<Utc>  *)
(* is its number of seconds since the epoch; Option<T> is a sequence of    *)
(* length 0 (None) or 1 (Some); Result<T> is a record whose kind is "Ok"   *)
(* or the kind of the TencentCloudError.                                   *)
(***************************************************************************)
EXTENDS Integers, Sequences, FiniteSets, TLC

VARIABLES signer, args, calls, clock, threads, client, effects

\* The Signer, the arguments of the caller and the record of the calls made.
\* The surroundings: the wall clock in epoch seconds, the frames of the
\* sign_request calls that run concurrently, the Client with the locals of
\* its request in progress, and the log of what reached the outside world
\* (clock readings, network requests and the replies to them), in the order
\* it happened.
vars == <<signer, args, calls, clock, threads, client, effects>>

surroundings == <<clock, threads, client, effects>>

\* The surroundings of a specification that has no clock, thread or Client.
Quiet ==
    /\ clock = 0
    /\ threads = <<>>
    /\ client = <<>>
    /\ effects = <<>>

(***************************************************************************)
(* Bounds of the model.                                                    *)
(***************************************************************************)
\* The most '&'-separated parameters of a generated query string.
MaxParams == 2
\* The most successive canonicalizations of one query string.
MaxPasses == 2
\* The most entries of a generated header map.
MaxHeaders == 2
\* The most sign_request invocations on one request descriptor.
MaxCalls == 2
\* The most characters of a generated payload.
MaxPayloadLen == 3
\* The most threads that call sign_request on one Signer at the same time.
MaxThreads == 2

(***************************************************************************)
(* Characters and strings.                                                 *)
(***************************************************************************)
NL == "\n"

\* The ASCII codes of the characters the model uses.
Code ==
    (NL :> 10) @@ (" " :> 32) @@ ("%" :> 37) @@ ("&" :> 38) @@ ("*" :> 42) @@
    ("+" :> 43) @@ ("," :> 44) @@ ("-" :> 45) @@ ("." :> 46) @@ ("/" :> 47) @@
    ("0" :> 48) @@ ("1" :> 49) @@ ("2" :> 50) @@ ("3" :> 51) @@ ("4" :> 52) @@
    ("5" :> 53) @@ ("6" :> 54) @@ ("7" :> 55) @@ ("8" :> 56) @@ ("9" :> 57) @@
    (":" :> 58) @@ (";" :> 59) @@ ("=" :> 61) @@ ("@" :> 64) @@
    ("A" :> 65) @@ ("B" :> 66) @@ ("C" :> 67) @@ ("D" :> 68) @@ ("E" :> 69) @@
    ("F" :> 70) @@ ("G" :> 71) @@ ("H" :> 72) @@ ("M" :> 77) @@ ("O" :> 79) @@
    ("P" :> 80) @@ ("S" :> 83) @@ ("T" :> 84) @@ ("X" :> 88) @@ ("_" :> 95) @@
    ("a" :> 97) @@ ("b" :> 98) @@ ("c" :> 99) @@ ("d" :> 100) @@ ("e" :> 101) @@
    ("g" :> 103) @@ ("h" :> 104) @@ ("i" :> 105) @@ ("k" :> 107) @@
    ("m" :> 109) @@ ("n" :> 110) @@ ("o" :> 111) @@ ("p" :> 112) @@
    ("q" :> 113) @@ ("r" :> 114) @@ ("s" :> 115) @@ ("t" :> 116) @@
    ("u" :> 117) @@ ("v" :> 118) @@ ("x" :> 120) @@ ("y" :> 121) @@
    ("z" :> 122)

Chars == DOMAIN Code

IsDigit(c) == Code[c] >= 48 /\ Code[c] <= 57
IsUpper(c) == Code[c] >= 65 /\ Code[c] <= 90
IsLower(c) == Code[c] >= 97 /\ Code[c] <= 122

\* The character with a given code.
CharOf(n) == CHOOSE c \in Chars : Code[c] = n

\* The native string of a sequence of characters and terms.
RECURSIVE Str(_)
Str(s) == IF s = <<>> THEN "" ELSE Head(s) \o Str(Tail(s))

\* String::cmp, Ordering::Less: bytewise lexicographic, a proper prefix first.
RECURSIVE StrLess(_, _)
StrLess(a, b) ==
    IF b = <<>> THEN FALSE
    ELSE IF a = <<>> THEN TRUE
    ELSE IF Code[Head(a)] # Code[Head(b)] THEN Code[Head(a)] < Code[Head(b)]
    ELSE StrLess(Tail(a), Tail(b))

StrLessEq(a, b) == ~StrLess(b, a)

\* str::split(sep): every occurrence of sep separates; "" splits to [""].
RECURSIVE SplitFrom(_, _, _)
SplitFrom(s, sep, cur) ==
    IF s = <<>> THEN <<cur>>
    ELSE IF Head(s) = sep THEN <<cur>> \o SplitFrom(Tail(s), sep, <<>>)
    ELSE SplitFrom(Tail(s), sep, Append(cur, Head(s)))

Split(s, sep) == SplitFrom(s, sep, <<>>)

\* [String]::join(sep).
RECURSIVE Join(_, _)
Join(parts, sep) ==
    IF parts = <<>> THEN <<>>
    ELSE IF Len(parts) = 1 THEN parts[1]
    ELSE parts[1] \o <<sep>> \o Join(Tail(parts), sep)

\* str::to_lowercase on the ASCII range.
ToLowercase(s) ==
    [i \in 1..Len(s) |-> IF IsUpper(s[i]) THEN CharOf(Code[s[i]] + 32) ELSE s[i]]

\* char::is_whitespace on the ASCII range of the model.
IsWhitespace(c) == c \in {" ", NL}

\* str::trim: leading and trailing whitespace removed.
RECURSIVE TrimStart(_)
TrimStart(s) ==
    IF s # <<>> /\ IsWhitespace(Head(s)) THEN TrimStart(Tail(s)) ELSE s

RECURSIVE TrimEnd(_)
TrimEnd(s) ==
    IF s # <<>> /\ IsWhitespace(s[Len(s)])
    THEN TrimEnd(SubSeq(s, 1, Len(s) - 1))
    ELSE s

Trim(s) == TrimEnd(TrimStart(s))

(***************************************************************************)
(* Signer::url_encode: url::form_urlencoded::byte_serialize.               *)
(***************************************************************************)
HexDigitsUpper ==
    <<"0", "1", "2", "3", "4", "5", "6", "7", "8", "9", "A", "B", "C", "D", "E", "F">>

\* A byte that byte_serialize leaves as it is.
IsUnreserved(c) ==
    IsDigit(c) \/ IsUpper(c) \/ IsLower(c) \/ c \in {"*", "-", ".", "_"}

EncodeByte(c) ==
    IF IsUnreserved(c) THEN <<c>>
    ELSE IF c = " " THEN <<"+">>
    ELSE <<"%", HexDigitsUpper[(Code[c] \div 16) + 1], HexDigitsUpper[(Code[c] % 16) + 1]>>

RECURSIVE url_encode(_)
url_encode(s) ==
    IF s = <<>> THEN <<>> ELSE EncodeByte(Head(s)) \o url_encode(Tail(s))

(***************************************************************************)
(* Signer::create_canonical_query_string.                                  *)
(***************************************************************************)
\* The loop of lines 115-125: one (key, value) pair per segment with at most
\* one '='; a segment with more parts pushes nothing.
RECURSIVE ParseParams(_)
ParseParams(segments) ==
    IF segments = <<>> THEN <<>>
    ELSE LET parts == Split(Head(segments), "=")
             rest == ParseParams(Tail(segments))
         IN  IF Len(parts) = 2
             THEN <<<<url_encode(parts[1]), url_encode(parts[2])>>>> \o rest
             ELSE IF Len(parts) = 1
             THEN <<<<url_encode(parts[1]), <<>>>>>> \o rest
             ELSE rest

\* A comparator over the whole (key, value) pair, a.cmp(b).
ParamLessKeyThenValue(a, b) ==
    StrLess(a[1], b[1]) \/ (a[1] = b[1] /\ StrLess(a[2], b[2]))

\* The comparator of line 128: the keys alone.
ParamLess(a, b) == StrLess(a[1], b[1])

\* An unstable sort: an element goes before the elements equal to it.
RECURSIVE InsertParamUnstable(_, _)
InsertParamUnstable(sorted, p) ==
    IF sorted = <<>> THEN <<p>>
    ELSE IF ~StrLess(Head(sorted)[1], p[1]) THEN <<p>> \o sorted
    ELSE <<Head(sorted)>> \o InsertParamUnstable(Tail(sorted), p)

\* slice::sort_by is stable: an element goes behind every element that is
\* not greater than it.
RECURSIVE InsertParam(_, _)
InsertParam(sorted, p) ==
    IF sorted = <<>> THEN <<p>>
    ELSE IF ParamLess(p, Head(sorted)) THEN <<p>> \o sorted
    ELSE <<Head(sorted)>> \o InsertParam(Tail(sorted), p)

RECURSIVE SortParams(_)
SortParams(params) ==
    IF params = <<>> THEN <<>>
    ELSE InsertParam(SortParams(SubSeq(params, 1, Len(params) - 1)),
                     params[Len(params)])

\* A rendering that writes the '=' before an empty value too.
RenderParamAlwaysEq(p) == p[1] \o <<"=">> \o p[2]

\* The closure of line 132.
RenderParam(p) == IF p[2] = <<>> THEN p[1] ELSE p[1] \o <<"=">> \o p[2]

create_canonical_query_string(query_string) ==
    IF query_string = <<>> THEN <<>>
    ELSE LET params == SortParams(ParseParams(Split(query_string, "&")))
         IN  Join([i \in 1..Len(params) |-> RenderParam(params[i])], "&")

(***************************************************************************)
(* Signer::create_canonical_headers and Signer::get_signed_headers.  iter  *)
(* is the order in which the HashMap hands out its keys.                   *)
(***************************************************************************)
\* Vec<String>::sort: Ord of String.
RECURSIVE InsertString(_, _)
InsertString(sorted, x) ==
    IF sorted = <<>> THEN <<x>>
    ELSE IF StrLess(x, Head(sorted)) THEN <<x>> \o sorted
    ELSE <<Head(sorted)>> \o InsertString(Tail(sorted), x)

RECURSIVE SortStrings(_)
SortStrings(xs) ==
    IF xs = <<>> THEN <<>>
    ELSE InsertString(SortStrings(SubSeq(xs, 1, Len(xs) - 1)), xs[Len(xs)])

\* The vectors of lines 144-153 as the loop leaves them.
HeaderLines(headers, iter) ==
    [i \in 1..Len(iter) |-> ToLowercase(iter[i]) \o <<":">> \o Trim(headers[iter[i]])]

HeaderNamesOf(iter) == [i \in 1..Len(iter) |-> ToLowercase(iter[i])]

\* Both vectors left in the order of the iteration.
create_canonical_headers_unsorted(headers, iter) ==
    <<Join(HeaderLines(headers, iter), NL) \o <<NL>>, Join(HeaderNamesOf(iter), ";")>>

\* The values taken as they are.
create_canonical_headers_untrimmed(headers, iter) ==
    <<Join(SortStrings([i \in 1..Len(iter) |->
               ToLowercase(iter[i]) \o <<":">> \o headers[iter[i]]]), NL) \o <<NL>>,
      Join(SortStrings(HeaderNamesOf(iter)), ";")>>

\* The pair (canonical headers block, signed-headers string).
create_canonical_headers(headers, iter) ==
    <<Join(SortStrings(HeaderLines(headers, iter)), NL) \o <<NL>>,
      Join(SortStrings(HeaderNamesOf(iter)), ";")>>

\* The names joined in the order of the iteration.
get_signed_headers_unsorted(headers, iter) == Join(HeaderNamesOf(iter), ";")

get_signed_headers(headers, iter) == Join(SortStrings(HeaderNamesOf(iter)), ";")

\* The orders in which a map may hand out its keys.
IterationOrders(headers) ==
    LET keys == DOMAIN headers
        n == Cardinality(keys)
    IN  {s \in [1..n -> keys] : \A i \in 1..n : \A j \in 1..n : s[i] = s[j] => i = j}

(***************************************************************************)
(* SHA-256, HMAC-SHA256 and hex::encode, as symbolic terms.                *)
(***************************************************************************)
\* Sha256::new, update, finalize: the digest of the bytes.
Sha256(bytes) == <<"{sha256:" \o Str(bytes) \o "}">>

\* The zero byte, which no text of the model contains but a key may.
NUL == "\\0"

\* The number of bytes of a key: a character is one byte, a digest 32.
RECURSIVE ByteLen(_)
ByteLen(key) ==
    IF key = <<>> THEN 0
    ELSE (IF Head(key) \in DOMAIN Code \cup {NUL} THEN 1 ELSE 32) + ByteLen(Tail(key))

\* A key without the zero bytes at its end.
RECURSIVE StripTrailingNul(_)
StripTrailingNul(key) ==
    IF key # <<>> /\ key[Len(key)] = NUL
    THEN StripTrailingNul(SubSeq(key, 1, Len(key) - 1))
    ELSE key

\* HmacSha256::new_from_slice(key): the key block that HMAC derives from a
\* key of any length.  A key longer than the 64-byte block of SHA-256 is
\* replaced by its digest, a shorter one is padded with zero bytes to the
\* block, so that keys which differ only in zero bytes at the end make the
\* same block; the block is written here without its padding.
HmacKey(key) ==
    IF ByteLen(key) > 64 THEN Sha256(key) ELSE StripTrailingNul(key)

\* HmacSha256::new_from_slice(key), update(msg), finalize().into_bytes().
HmacSha256(key, msg) ==
    <<"{hmac:" \o Str(HmacKey(key)) \o "|" \o Str(msg) \o "}">>

\* hex::encode: the lowercase hexadecimal digits of the bytes.
hex_encode(bytes) == <<"{hex:" \o Str(bytes) \o "}">>

\* Signer::hash_payload.
hash_payload(payload) == hex_encode(Sha256(payload))

(***************************************************************************)
(* SHA-256 (FIPS 180-4) and hex::encode, computed.  A 32-bit word is the   *)
(* pair <<high, low>> of its 16-bit halves; a byte is a number 0..255.     *)
(***************************************************************************)
\* The bitwise exclusive or of two numbers of n bits.
RECURSIVE Xor(_, _, _)
Xor(x, y, n) ==
    IF n = 0 THEN 0
    ELSE ((x + y) % 2) + 2 * Xor(x \div 2, y \div 2, n - 1)

\* The bitwise and of two numbers of n bits.
RECURSIVE And(_, _, _)
And(x, y, n) ==
    IF n = 0 THEN 0
    ELSE ((x % 2) * (y % 2)) + 2 * And(x \div 2, y \div 2, n - 1)

WordXor(a, b) == <<Xor(a[1], b[1], 16), Xor(a[2], b[2], 16)>>

WordAnd(a, b) == <<And(a[1], b[1], 16), And(a[2], b[2], 16)>>

WordNot(a) == <<65535 - a[1], 65535 - a[2]>>

\* The sum of the words of a sequence, modulo 2^32.
RECURSIVE SumHalves(_, _)
SumHalves(ws, half) ==
    IF ws = <<>> THEN 0 ELSE Head(ws)[half] + SumHalves(Tail(ws), half)

WordSum(ws) ==
    LET low == SumHalves(ws, 2)
        high == SumHalves(ws, 1) + (low \div 65536)
    IN  <<high % 65536, low % 65536>>

\* Shift right by n bits, 0 <= n < 16.
ShiftRight(a, n) ==
    <<a[1] \div (2 ^ n), (a[2] \div (2 ^ n)) + (a[1] % (2 ^ n)) * (2 ^ (16 - n))>>

\* Rotate right by n bits, 0 <= n < 32.
RotateRight(a, n) ==
    LET b == IF n >= 16 THEN <<a[2], a[1]>> ELSE a
        k == n % 16
    IN  <<(b[1] \div (2 ^ k)) + (b[2] % (2 ^ k)) * (2 ^ (16 - k)),
          (b[2] \div (2 ^ k)) + (b[1] % (2 ^ k)) * (2 ^ (16 - k))>>

\* The initial hash value: the first 32 bits of the fractional parts of the
\* square roots of the first eight primes.
Sha256Initial ==
    <<<<27145, 58983>>, <<47975, 44677>>, <<15470, 62322>>, <<42319, 62778>>,
      <<20750, 21119>>, <<39685, 26764>>, <<8067, 55723>>, <<23520, 52505>>>>

\* The round constants: the first 32 bits of the fractional parts of the cube
\* roots of the first sixty-four primes.
Sha256RoundConstants ==
    <<<<17034, 12184>>, <<28983, 17553>>, <<46528, 64463>>, <<59829, 56229>>,
      <<14678, 49755>>, <<23025, 4593>>, <<37439, 33444>>, <<43804, 24277>>,
      <<55303, 43672>>, <<4739, 23297>>, <<9265, 34238>>, <<21772, 32195>>,
      <<29374, 23924>>, <<32990, 45566>>, <<39900, 1703>>, <<49563, 61812>>,
      <<58523, 27073>>, <<61374, 18310>>, <<4033, 40390>>, <<9228, 41420>>,
      <<11753, 11375>>, <<19060, 33962>>, <<23728, 43484>>, <<30457, 35034>>,
      <<38974, 20818>>, <<43057, 50797>>, <<45059, 10184>>, <<48985, 32711>>,
      <<50912, 3059>>, <<54695, 37191>>, <<1738, 25425>>, <<5161, 10599>>,
      <<10167, 2693>>, <<11803, 8504>>, <<19756, 28156>>, <<21304, 3347>>,
      <<25866, 29524>>, <<30314, 2747>>, <<33218, 51502>>, <<37490, 11397>>,
      <<41663, 59553>>, <<43034, 26187>>, <<49739, 35696>>, <<51052, 20899>>,
      <<53650, 59417>>, <<54937, 1572>>, <<62478, 13701>>, <<4202, 41072>>,
      <<6564, 49430>>, <<7735, 27656>>, <<10056, 30540>>, <<13488, 48309>>,
      <<14620, 3251>>, <<20184, 43594>>, <<23452, 51791>>, <<26670, 28659>>,
      <<29839, 33518>>, <<30885, 25455>>, <<33992, 30740>>, <<36039, 520>>,
      <<37054, 65530>>, <<42064, 27883>>, <<48889, 41975>>, <<50801, 30962>>>>

\* The message with its padding: a 1 bit, zero bits up to 56 modulo 64 bytes
\* and the length in bits as a 64-bit big-endian number (the lengths of the
\* model fit the last two bytes).
Sha256Padded(bytes) ==
    LET zeros == (119 - (Len(bytes) % 64)) % 64
        bits == 8 * Len(bytes)
    IN  bytes \o <<128>> \o [i \in 1..(zeros + 6) |-> 0]
        \o <<bits \div 256, bits % 256>>

\* The 16 big-endian words of the block that starts after byte number at.
BlockWords(padded, at) ==
    [t \in 1..16 |->
        <<padded[at + 4 * t - 3] * 256 + padded[at + 4 * t - 2],
          padded[at + 4 * t - 1] * 256 + padded[at + 4 * t]>>]

\* The message schedule of 64 words.
RECURSIVE Sha256Schedule(_)
Sha256Schedule(w) ==
    IF Len(w) = 64 THEN w
    ELSE LET t == Len(w) + 1
             x == w[t - 15]
             y == w[t - 2]
             s0 == WordXor(WordXor(RotateRight(x, 7), RotateRight(x, 18)),
                           ShiftRight(x, 3))
             s1 == WordXor(WordXor(RotateRight(y, 17), RotateRight(y, 19)),
                           ShiftRight(y, 10))
         IN  Sha256Schedule(Append(w, WordSum(<<w[t - 16], s0, w[t - 7], s1>>)))

\* The working variables a..h after round t.
Sha256Round(v, w, t) ==
    LET a == v[1]
        e == v[5]
        S1 == WordXor(WordXor(RotateRight(e, 6), RotateRight(e, 11)),
                      RotateRight(e, 25))
        ch == WordXor(WordAnd(e, v[6]), WordAnd(WordNot(e), v[7]))
        temp1 == WordSum(<<v[8], S1, ch, Sha256RoundConstants[t], w[t]>>)
        S0 == WordXor(WordXor(RotateRight(a, 2), RotateRight(a, 13)),
                      RotateRight(a, 22))
        maj == WordXor(WordXor(WordAnd(a, v[2]), WordAnd(a, v[3])),
                       WordAnd(v[2], v[3]))
        temp2 == WordSum(<<S0, maj>>)
    IN  <<WordSum(<<temp1, temp2>>), v[1], v[2], v[3],
          WordSum(<<v[4], temp1>>), v[5], v[6], v[7]>>

\* The working variables after the rounds t..64.  Their domain is read
\* before the next round is entered, which makes the evaluation go round by
\* round.
RECURSIVE Sha256Rounds(_, _, _)
Sha256Rounds(v, w, t) ==
    IF DOMAIN v = 1..8 /\ t <= 64
    THEN Sha256Rounds(Sha256Round(v, w, t), w, t + 1)
    ELSE v

\* The hash value after the blocks that start after byte number at.
RECURSIVE Sha256Blocks(_, _, _)
Sha256Blocks(h, padded, at) ==
    IF at >= Len(padded) THEN h
    ELSE LET v == Sha256Rounds(h, Sha256Schedule(BlockWords(padded, at)), 1)
         IN  Sha256Blocks([i \in 1..8 |-> WordSum(<<h[i], v[i]>>)], padded, at + 64)

\* Sha256::new, update(bytes), finalize: the 32 bytes of the digest.
Sha256Digest(bytes) ==
    LET h == Sha256Blocks(Sha256Initial, Sha256Padded(bytes), 0)
    IN  [i \in 1..32 |->
            LET half == h[(i + 3) \div 4][IF (i - 1) % 4 < 2 THEN 1 ELSE 2]
            IN  IF i % 2 = 1 THEN half \div 256 ELSE half % 256]

\* The uppercase hexadecimal digits.
HexDigitsOfUpperCase ==
    <<"0", "1", "2", "3", "4", "5", "6", "7", "8", "9", "A", "B", "C", "D", "E", "F">>

\* hex::encode writes with the table "0123456789abcdef".
HexDigitsLower ==
    <<"0", "1", "2", "3", "4", "5", "6", "7", "8", "9", "a", "b", "c", "d", "e", "f">>

\* hex::encode: two digits for every byte, the high four bits first.
RECURSIVE HexEncodeBytes(_)
HexEncodeBytes(bytes) ==
    IF bytes = <<>> THEN <<>>
    ELSE <<HexDigitsLower[(Head(bytes) \div 16) + 1],
           HexDigitsLower[(Head(bytes) % 16) + 1]>>
         \o HexEncodeBytes(Tail(bytes))

\* str::as_bytes of a string of the model.
AsBytes(s) == [i \in 1..Len(s) |-> Code[s[i]]]

\* Signer::hash_payload, computed: the digits that the term
\* hash_payload(payload) stands for.
hash_payload_digits(payload) == HexEncodeBytes(Sha256Digest(AsBytes(payload)))

(***************************************************************************)
(* Signer::create_canonical_request.                                       *)
(***************************************************************************)
\* A canonical request whose URI field is the URI as given, empty or not.
create_canonical_request_no_default(http_method, uri, query_string, headers, iter, payload) ==
    LET canonical_headers == create_canonical_headers(headers, iter)
    IN  http_method \o <<NL>> \o uri \o <<NL>>
        \o create_canonical_query_string(query_string) \o <<NL>>
        \o canonical_headers[1] \o <<NL>> \o canonical_headers[2] \o <<NL>>
        \o hash_payload(payload)

create_canonical_request(http_method, uri, query_string, headers, iter, payload) ==
    LET canonical_uri == IF uri = <<>> THEN <<"/">> ELSE uri
        canonical_query_string == create_canonical_query_string(query_string)
        canonical_headers == create_canonical_headers(headers, iter)
        hashed_payload == hash_payload(payload)
    IN  http_method \o <<NL>> \o canonical_uri \o <<NL>>
        \o canonical_query_string \o <<NL>>
        \o canonical_headers[1] \o <<NL>> \o canonical_headers[2] \o <<NL>>
        \o hashed_payload

(***************************************************************************)
(* chrono: DateTime<Utc>::timestamp and format("%Y%m%d").                  *)
(***************************************************************************)
DecimalDigits == <<"0", "1", "2", "3", "4", "5", "6", "7", "8", "9">>

\* Display of a non-negative i64.
RECURSIVE FormatDecimal(_)
FormatDecimal(n) ==
    IF n < 10 THEN <<DecimalDigits[n + 1]>>
    ELSE Append(FormatDecimal(n \div 10), DecimalDigits[(n % 10) + 1])

\* A number zero-padded to a width, as %Y (4), %m and %d (2) write it.
RECURSIVE ZeroPadded(_, _)
ZeroPadded(n, width) ==
    IF width = 0 THEN <<>>
    ELSE Append(ZeroPadded(n \div 10, width - 1), DecimalDigits[(n % 10) + 1])

\* The UTC calendar date of a number of seconds since the epoch, as <<y, m, d>>.
CivilDate(seconds) ==
    LET z == (seconds \div 86400) + 719468
        era == z \div 146097
        doe == z - era * 146097
        yoe == (doe - doe \div 1460 + doe \div 36524 - doe \div 146096) \div 365
        doy == doe - (365 * yoe + yoe \div 4 - yoe \div 100)
        mp == (5 * doy + 2) \div 153
        d == doy - (153 * mp + 2) \div 5 + 1
        m == IF mp < 10 THEN mp + 3 ELSE mp - 9
        y == yoe + era * 400 + (IF m <= 2 THEN 1 ELSE 0)
    IN  <<y, m, d>>

\* timestamp.format("%Y%m%d").to_string().
FormatDate(timestamp) ==
    LET ymd == CivilDate(timestamp)
    IN  ZeroPadded(ymd[1], 4) \o ZeroPadded(ymd[2], 2) \o ZeroPadded(ymd[3], 2)

\* The date of the same instant on a clock eight hours ahead of UTC.
FormatDateLocal(timestamp) == FormatDate(timestamp + 28800)

(***************************************************************************)
(* Signer::create_string_to_sign.                                          *)
(***************************************************************************)
Algorithm == <<"T", "C", "3", "-", "H", "M", "A", "C", "-", "S", "H", "A", "2", "5", "6">>

Tc3Request == <<"t", "c", "3", "_", "r", "e", "q", "u", "e", "s", "t">>

\* A credential scope with the region in it, date/region/service/tc3_request.
create_string_to_sign_with_region(canonical_request, service, region, timestamp) ==
    Algorithm \o <<NL>> \o FormatDecimal(timestamp) \o <<NL>>
    \o FormatDate(timestamp) \o <<"/">> \o region \o <<"/">> \o service
    \o <<"/">> \o Tc3Request \o <<NL>>
    \o hex_encode(Sha256(canonical_request))

create_string_to_sign(canonical_request, service, region, timestamp) ==
    LET date == FormatDate(timestamp)
        credential_scope == date \o <<"/">> \o service \o <<"/">> \o Tc3Request
        hashed_canonical_request == hex_encode(Sha256(canonical_request))
    IN  Algorithm \o <<NL>> \o FormatDecimal(timestamp) \o <<NL>>
        \o credential_scope \o <<NL>> \o hashed_canonical_request

(***************************************************************************)
(* Signer::calculate_signature: its locals, and what it returns.           *)
(***************************************************************************)
\* A key chain of three stages, which signs with the service key.
KeyChainNoTerminator(self, date, string_to_sign, service) ==
    LET k_date == HmacSha256(<<"T", "C", "3">> \o self.secret_key, date)
        k_service == HmacSha256(k_date, service)
        signature == HmacSha256(k_service, string_to_sign)
    IN  [date |-> date, k_date |-> k_date, k_service |-> k_service,
         k_signing |-> k_service, signature |-> signature]

\* A key chain whose signing key is made from the date key, not the service key.
KeyChainDateKeyReused(self, date, string_to_sign, service) ==
    LET k_date == HmacSha256(<<"T", "C", "3">> \o self.secret_key, date)
        k_service == HmacSha256(k_date, service)
        k_signing == HmacSha256(k_date, Tc3Request)
        signature == HmacSha256(k_signing, string_to_sign)
    IN  [date |-> date, k_date |-> k_date, k_service |-> k_service,
         k_signing |-> k_signing, signature |-> signature]

\* The key chain of a date.
KeyChain(self, date, string_to_sign, service) ==
    LET k_date == HmacSha256(<<"T", "C", "3">> \o self.secret_key, date)
        k_service == HmacSha256(k_date, service)
        k_signing == HmacSha256(k_service, Tc3Request)
        signature == HmacSha256(k_signing, string_to_sign)
    IN  [date |-> date, k_date |-> k_date, k_service |-> k_service,
         k_signing |-> k_signing, signature |-> signature]

\* The key chain of the date that a clock eight hours ahead of UTC shows.
SignatureLocalsLocalDate(self, string_to_sign, service, region, timestamp) ==
    KeyChain(self, FormatDateLocal(timestamp), string_to_sign, service)

SignatureLocals(self, string_to_sign, service, region, timestamp) ==
    KeyChain(self, FormatDate(timestamp), string_to_sign, service)

calculate_signature(self, string_to_sign, service, region, timestamp) ==
    hex_encode(SignatureLocals(self, string_to_sign, service, region, timestamp).signature)

(***************************************************************************)
(* Signer::create_authorization_header.                                    *)
(***************************************************************************)
\* An authorization header whose fields a comma alone separates.
create_authorization_header_no_space(self, signature, service, region, timestamp, signed_headers) ==
    LET date == FormatDate(timestamp)
        credential_scope == date \o <<"/">> \o service \o <<"/">> \o Tc3Request
        credential == self.secret_id \o <<"/">> \o credential_scope
    IN  Algorithm \o <<" ", "C", "r", "e", "d", "e", "n", "t", "i", "a", "l", "=">> \o credential
        \o <<",", "S", "i", "g", "n", "e", "d", "H", "e", "a", "d", "e", "r", "s", "=">> \o signed_headers
        \o <<",", "S", "i", "g", "n", "a", "t", "u", "r", "e", "=">> \o signature

create_authorization_header(self, signature, service, region, timestamp, signed_headers) ==
    LET date == FormatDate(timestamp)
        credential_scope == date \o <<"/">> \o service \o <<"/">> \o Tc3Request
        credential == self.secret_id \o <<"/">> \o credential_scope
    IN  Algorithm \o <<" ", "C", "r", "e", "d", "e", "n", "t", "i", "a", "l", "=">> \o credential
        \o <<",", " ", "S", "i", "g", "n", "e", "d", "H", "e", "a", "d", "e", "r", "s", "=">>
        \o signed_headers
        \o <<",", " ", "S", "i", "g", "n", "a", "t", "u", "r", "e", "=">> \o signature

(***************************************************************************)
(* Signer::sign_request: its locals, and what it returns (out).            *)
(***************************************************************************)
sign_request(self, a, iter) ==
    LET canonical_request ==
            create_canonical_request(a.http_method, a.uri, a.query_string,
                                     a.headers, iter, a.payload)
        string_to_sign ==
            create_string_to_sign(canonical_request, a.service, a.region, a.timestamp)
        signature ==
            calculate_signature(self, string_to_sign, a.service, a.region, a.timestamp)
    IN  [op |-> "sign_request", iter |-> iter,
         canonical_request |-> canonical_request,
         string_to_sign |-> string_to_sign,
         key_chain |-> SignatureLocals(self, string_to_sign, a.service, a.region,
                                       a.timestamp),
         out |-> signature]

(***************************************************************************)
(* Result<T>, and the Signer functions that can return an error.           *)
(***************************************************************************)
\* Ok(value)
Ok(value) == [kind |-> "Ok", value |-> value]

\* Err(TencentCloudError::Kind(message))
Err(kind, message) == [kind |-> kind, message |-> message]

\* A calculate_signature that passes the error of the HMAC on as
\* TencentCloudError::Other.
calculate_signature_result_other(self, string_to_sign, service, region, timestamp, rejected) ==
    IF rejected # {}
    THEN Err("Other", "Invalid Length")
    ELSE Ok(calculate_signature(self, string_to_sign, service, region, timestamp))

\* Signer::calculate_signature with its four new_from_slice(..).map_err(..)?.
\* Hmac takes a key of any length; the Err arm of its declared Result is kept
\* as an outcome, rejected being the stages (1..4) at which it is taken.  The
\* first of them ends the function with a Signature error.
calculate_signature_result(self, string_to_sign, service, region, timestamp, rejected) ==
    IF rejected # {}
    THEN Err("Signature", "Failed to create HMAC: Invalid Length")
    ELSE Ok(calculate_signature(self, string_to_sign, service, region, timestamp))

\* Signer::sign_request with its three `?`: the first two steps return Ok in
\* every case, the third returns what calculate_signature returns.
sign_request_result(self, a, iter, rejected) ==
    LET canonical_request ==
            Ok(create_canonical_request(a.http_method, a.uri, a.query_string,
                                        a.headers, iter, a.payload))
        string_to_sign ==
            IF canonical_request.kind # "Ok" THEN canonical_request
            ELSE Ok(create_string_to_sign(canonical_request.value, a.service,
                                          a.region, a.timestamp))
    IN  IF string_to_sign.kind # "Ok" THEN string_to_sign
        ELSE calculate_signature_result(self, string_to_sign.value, a.service,
                                        a.region, a.timestamp, rejected)

(***************************************************************************)
(* The Signer of the tests, Signer::new("test_id", "test_key", None).      *)
(***************************************************************************)
SignerNew(secret_id, secret_key, token) ==
    [secret_id |-> secret_id, secret_key |-> secret_key, token |-> token]

TestSigner ==
    SignerNew(<<"t", "e", "s", "t", "_", "i", "d">>,
              <<"t", "e", "s", "t", "_", "k", "e", "y">>, <<>>)

(***************************************************************************)
(* Query strings: up to MaxParams segments joined by '&'.                  *)
(***************************************************************************)
QueryKeys == {<<"a">>, <<"b">>, <<"a", " ">>, <<"a", "@">>}

QueryValues == {<<>>, <<"1">>, <<"2">>, <<"1", " ">>}

QuerySegments ==
    QueryKeys \cup {<<>>}
    \cup {k \o <<"=">> \o v : k \in QueryKeys, v \in QueryValues}
    \cup {<<"a", "=", "1", "=", "2">>}

RECURSIVE SegmentSeqs(_)
SegmentSeqs(n) ==
    IF n = 0 THEN {<<>>}
    ELSE LET shorter == SegmentSeqs(n - 1)
         IN  shorter \cup {Append(s, g) : s \in {t \in shorter : Len(t) = n - 1},
                                           g \in QuerySegments}

QueryStrings == {Join(s, "&") : s \in SegmentSeqs(MaxParams)}

(***************************************************************************)
(* Query canonicalization: a query string is canonicalized and the result  *)
(* is canonicalized again.                                                 *)
(***************************************************************************)
QueryCall(q) ==
    [op |-> "create_canonical_query_string", query_string |-> q,
     out |-> create_canonical_query_string(q)]

InitQuery ==
    /\ signer = TestSigner
    /\ args \in {[query_string |-> q] : q \in QueryStrings}
    /\ calls = <<>>
    /\ Quiet

CanonicalizeQuery ==
    /\ calls = <<>>
    /\ calls' = <<QueryCall(args.query_string)>>
    /\ UNCHANGED <<signer, args, surroundings>>

CanonicalizeAgain ==
    /\ calls # <<>>
    /\ Len(calls) < MaxPasses
    /\ calls' = Append(calls, QueryCall(calls[Len(calls)].out))
    /\ UNCHANGED <<signer, args, surroundings>>

NextQuery == CanonicalizeQuery \/ CanonicalizeAgain

SpecQuery == InitQuery /\ [][NextQuery]_vars

(***************************************************************************)
(* Reading a canonical query string back, for the properties below.        *)
(***************************************************************************)
Count(x, s) == Cardinality({i \in 1..Len(s) : s[i] = x})

Range(s) == {s[i] : i \in 1..Len(s)}

SameBag(s, t) ==
    /\ Len(s) = Len(t)
    /\ \A x \in Range(s) \cup Range(t) : Count(x, s) = Count(x, t)

\* The part of a segment before its first '=', and the part after it.
RECURSIVE BeforeEq(_)
BeforeEq(g) ==
    IF g = <<>> \/ Head(g) = "=" THEN <<>> ELSE <<Head(g)>> \o BeforeEq(Tail(g))

AfterEq(g) ==
    IF Count("=", g) = 0 THEN <<>> ELSE SubSeq(g, Len(BeforeEq(g)) + 2, Len(g))

\* The '&'-separated segments of a query string.
SegmentsOf(q) == Split(q, "&")

\* The elements of s at the indices where keep is TRUE, in their order.

Subsequence(s, keep) ==
    LET idx == {i \in 1..Len(s) : keep[i]}
        RECURSIVE Pick(_)
        Pick(i) == IF i > Len(s) THEN <<>>
                   ELSE IF i \in idx THEN <<s[i]>> \o Pick(i + 1)
                   ELSE Pick(i + 1)
    IN  Pick(1)

\* The segments written with at most one '='.
KeptSegments(q) ==
    LET segs == SegmentsOf(q)
    IN  Subsequence(segs, [i \in 1..Len(segs) |-> Count("=", segs[i]) <= 1])

\* The (encoded key, encoded value) pairs a query string is expected to give,
\* in the order it is written.
ExpectedParams(q) ==
    LET kept == KeptSegments(q)
    IN  [i \in 1..Len(kept) |->
            <<url_encode(BeforeEq(kept[i])), url_encode(AfterEq(kept[i]))>>]

\* The (key, value) pairs of a canonical query string.
OutParams(out) ==
    LET segs == Split(out, "&")
    IN  [i \in 1..Len(segs) |-> <<BeforeEq(segs[i]), AfterEq(segs[i])>>]

WithKey(params, k) ==
    Subsequence(params, [i \in 1..Len(params) |-> params[i][1] = k])

KeysSorted(params) ==
    \A i \in 1..Len(params) : \A j \in 1..Len(params) :
        i < j => StrLessEq(params[i][1], params[j][1])

\* C2 (as amended): the parameters of the output are in non-decreasing order
\* of their encoded keys; the parameters with one and the same key stand in
\* the order in which the input has them, and each of them is kept.
C2_SortedByKeyStable ==
    \A n \in 1..Len(calls) :
        LET c == calls[n]
            expected == ExpectedParams(c.query_string)
        IN  IF expected = <<>> THEN c.out = <<>>
            ELSE LET out == OutParams(c.out)
                 IN  /\ KeysSorted(out)
                     /\ Len(out) = Len(expected)
                     /\ \A i \in 1..Len(expected) :
                            WithKey(out, expected[i][1]) = WithKey(expected, expected[i][1])

\* C2 as stated: sorted by encoded key and, among the parameters with the same
\* key, by encoded value; every parameter kept.
C2_TiesByValue ==
    \A n \in 1..Len(calls) :
        LET c == calls[n]
            expected == ExpectedParams(c.query_string)
        IN  expected # <<>> =>
                LET out == OutParams(c.out)
                IN  /\ KeysSorted(out)
                    /\ SameBag(out, expected)
                    /\ \A i \in 1..Len(out) : \A j \in 1..Len(out) :
                           (i < j /\ out[i][1] = out[j][1])
                               => StrLessEq(out[i][2], out[j][2])

\* "a=2&a=1" has been canonicalized, and has come out as it went in.
C2_Witness ==
    /\ calls # <<>>
    /\ calls[1].query_string = <<"a", "=", "2", "&", "a", "=", "1">>
    /\ calls[1].out = <<"a", "=", "2", "&", "a", "=", "1">>

\* A string that url_encode and the split on '&' and '=' leave as it is.
IsPlainQuery(q) == \A i \in 1..Len(q) : IsUnreserved(q[i]) \/ q[i] \in {"&", "="}

\* C3 (as amended): canonicalizing a canonical query string none of whose
\* parameters holds a character that url_encode changes returns it unchanged.
C3_IdempotentOnPlain ==
    \A n \in 2..Len(calls) :
        (calls[n].query_string = calls[n - 1].out /\ IsPlainQuery(calls[n - 1].out))
            => calls[n].out = calls[n - 1].out

\* C3 as stated: canonicalizing a canonical query string returns it unchanged,
\* whatever the characters of the query string.
C3_Idempotent ==
    \A n \in 2..Len(calls) :
        calls[n].query_string = calls[n - 1].out => calls[n].out = calls[n - 1].out

\* "b=2&a=1" has become "a=1&b=2", and that has been canonicalized again.
C3_Witness ==
    /\ Len(calls) >= 2
    /\ calls[1].query_string = <<"b", "=", "2", "&", "a", "=", "1">>
    /\ calls[1].out = <<"a", "=", "1", "&", "b", "=", "2">>
    /\ calls[2].query_string = calls[1].out

\* How C4 as stated renders a segment: its encoded key alone when it has no
\* '=', and key '=' value when it has one.
RenderAsStated(g) ==
    IF Count("=", g) = 0 THEN url_encode(g)
    ELSE url_encode(BeforeEq(g)) \o <<"=">> \o url_encode(AfterEq(g))

\* How C4 as amended renders it: the '=' is there only before a value that is
\* not empty.
RenderAsAmended(g) ==
    IF AfterEq(g) = <<>> THEN url_encode(BeforeEq(g))
    ELSE url_encode(BeforeEq(g)) \o <<"=">> \o url_encode(AfterEq(g))

\* C4 (as amended): a parameter written without '=' is rendered as its encoded
\* key alone; a parameter written with one '=' is rendered as key '=' value
\* when its value is not empty, and as its encoded key alone when it is.
C4_KeyAloneOrKeyValue ==
    \A n \in 1..Len(calls) :
        LET c == calls[n]
            kept == KeptSegments(c.query_string)
        IN  IF kept = <<>> THEN c.out = <<>>
            ELSE SameBag(Split(c.out, "&"),
                         [i \in 1..Len(kept) |-> RenderAsAmended(kept[i])])

\* C4 as stated, on the query strings all of whose parameters are written with
\* at most one '='.
C4_AsStated ==
    \A n \in 1..Len(calls) :
        LET c == calls[n]
            segs == SegmentsOf(c.query_string)
        IN  (\A i \in 1..Len(segs) : Count("=", segs[i]) <= 1)
                => SameBag(Split(c.out, "&"),
                           [i \in 1..Len(segs) |-> RenderAsStated(segs[i])])

\* "b&a=1", one parameter of each kind, has been canonicalized to "a=1&b".
C4_Witness ==
    /\ calls # <<>>
    /\ calls[1].query_string = <<"b", "&", "a", "=", "1">>
    /\ calls[1].out = <<"a", "=", "1", "&", "b">>

\* C29: for every non-empty query string, every '&'-separated segment gives
\* exactly one parameter of the output of create_canonical_query_string, a
\* segment with more than one '=' included: the output has as many parameters
\* as the input has segments.
C29_EverySegmentContributes ==
    \A n \in 1..Len(calls) :
        LET c == calls[n]
            written == IF c.out = <<>> THEN 0 ELSE Len(Split(c.out, "&"))
        IN  c.query_string # <<>>
                => written = Len(SegmentsOf(c.query_string))

(***************************************************************************)
(* Header maps: up to MaxHeaders entries.                                  *)
(***************************************************************************)
HeaderNames ==
    {<<"H", "o", "s", "t">>, <<"h", "o", "s", "t">>, <<"X", "-", "A">>,
     <<"X", "-", "A", "-", "B">>,
     <<"C", "o", "n", "t", "e", "n", "t", "-", "T", "y", "p", "e">>}

HeaderValues == {<<>>, <<"v">>, <<" ", "v", " ">>, <<"a", " ", "b">>}

HeaderMaps ==
    UNION {[keys -> HeaderValues] :
             keys \in {k \in SUBSET HeaderNames : Cardinality(k) <= MaxHeaders}}

(***************************************************************************)
(* Header canonicalization: create_canonical_headers and                   *)
(* get_signed_headers are each called once on one header map.              *)
(***************************************************************************)
Called(op) == \E n \in 1..Len(calls) : calls[n].op = op

InitHeaders ==
    /\ signer = TestSigner
    /\ args \in {[headers |-> h] : h \in HeaderMaps}
    /\ calls = <<>>
    /\ Quiet

CanonicalizeHeaders ==
    /\ ~Called("create_canonical_headers")
    /\ \E iter \in IterationOrders(args.headers) :
          calls' = Append(calls, [op |-> "create_canonical_headers",
                                  headers |-> args.headers, iter |-> iter,
                                  out |-> create_canonical_headers(args.headers, iter)])
    /\ UNCHANGED <<signer, args, surroundings>>

GetSignedHeaders ==
    /\ ~Called("get_signed_headers")
    /\ \E iter \in IterationOrders(args.headers) :
          calls' = Append(calls, [op |-> "get_signed_headers",
                                  headers |-> args.headers, iter |-> iter,
                                  out |-> get_signed_headers(args.headers, iter)])
    /\ UNCHANGED <<signer, args, surroundings>>

NextHeaders == CanonicalizeHeaders \/ GetSignedHeaders

SpecHeaders == InitHeaders /\ [][NextHeaders]_vars

\* What to_lowercase gives for each header name of the model.
LowercasedName(name) ==
    CASE name = <<"H", "o", "s", "t">> -> <<"h", "o", "s", "t">>
      [] name = <<"h", "o", "s", "t">> -> <<"h", "o", "s", "t">>
      [] name = <<"X", "-", "A">> -> <<"x", "-", "a">>
      [] name = <<"X", "-", "A", "-", "B">> -> <<"x", "-", "a", "-", "b">>
      [] name = <<"C", "o", "n", "t", "e", "n", "t", "-", "T", "y", "p", "e">>
            -> <<"c", "o", "n", "t", "e", "n", "t", "-", "t", "y", "p", "e">>

\* What trim gives for each header value of the model.
TrimmedValue(value) ==
    CASE value = <<>> -> <<>>
      [] value = <<"v">> -> <<"v">>
      [] value = <<" ", "v", " ">> -> <<"v">>
      [] value = <<"a", " ", "b">> -> <<"a", " ", "b">>

\* The lines of a canonical headers block: what stands before each newline.
BlockLines(block) == Split(SubSeq(block, 1, Len(block) - 1), NL)

\* C5: create_canonical_headers renders every entry of the map as one line
\* "{lowercased name}:{value without its leading and trailing whitespace}",
\* whitespace inside the value kept, and the block ends with a newline.
C5_OneLinePerEntry ==
    \A n \in 1..Len(calls) :
        calls[n].op = "create_canonical_headers" =>
            LET c == calls[n]
                block == c.out[1]
            IN  /\ block # <<>>
                /\ block[Len(block)] = NL
                /\ IF DOMAIN c.headers = {} THEN block = <<NL>>
                   ELSE SameBag(BlockLines(block),
                                [i \in 1..Len(c.iter) |->
                                    LowercasedName(c.iter[i]) \o <<":">>
                                        \o TrimmedValue(c.headers[c.iter[i]])])

\* A map with an upper-case name, a value with whitespace around it and a
\* value with whitespace inside it has been canonicalized.
C5_Witness ==
    \E n \in 1..Len(calls) :
        /\ calls[n].op = "create_canonical_headers"
        /\ calls[n].headers = (<<"H", "o", "s", "t">> :> <<" ", "v", " ">>)
                                @@ (<<"X", "-", "A">> :> <<"a", " ", "b">>)
        /\ calls[n].out[1] = <<"h", "o", "s", "t", ":", "v", NL,
                               "x", "-", "a", ":", "a", " ", "b", NL>>

\* The name of a line: what stands before its first ':'.
RECURSIVE BeforeColon(_)
BeforeColon(line) ==
    IF line = <<>> \/ Head(line) = ":" THEN <<>>
    ELSE <<Head(line)>> \o BeforeColon(Tail(line))

\* C6: the lines of the canonical block are ordered by lowercased header
\* name: the name of the k-th line is the k-th name of the signed-headers
\* string.
C6_LinesInNameOrder ==
    \A n \in 1..Len(calls) :
        (calls[n].op = "create_canonical_headers" /\ DOMAIN calls[n].headers # {}) =>
            LET lines == BlockLines(calls[n].out[1])
                names == Split(calls[n].out[2], ";")
            IN  /\ Len(lines) = Len(names)
                /\ \A k \in 1..Len(lines) : BeforeColon(lines[k]) = names[k]
                /\ \A i \in 1..Len(lines) : \A j \in 1..Len(lines) :
                       i < j => StrLessEq(BeforeColon(lines[i]), BeforeColon(lines[j]))

\* C7: get_signed_headers returns the lowercased header names, sorted and
\* joined by ';', and that is the signed-headers string of
\* create_canonical_headers for the same map.
C7_SignedHeadersAgree ==
    \A n \in 1..Len(calls) :
        calls[n].op = "get_signed_headers" =>
            LET c == calls[n]
                names == IF DOMAIN c.headers = {} THEN <<>> ELSE Split(c.out, ";")
            IN  /\ DOMAIN c.headers = {} => c.out = <<>>
                /\ SameBag(names, [i \in 1..Len(c.iter) |-> LowercasedName(c.iter[i])])
                /\ \A i \in 1..Len(names) : \A j \in 1..Len(names) :
                       i < j => StrLessEq(names[i], names[j])
                /\ \A k \in 1..Len(calls) :
                       calls[k].op = "create_canonical_headers" => calls[k].out[2] = c.out

\* Both operations have been called on a map of two entries, each with an
\* iteration order of its own.
C7_Witness ==
    \E n \in 1..Len(calls) : \E k \in 1..Len(calls) :
        /\ calls[n].op = "get_signed_headers"
        /\ calls[k].op = "create_canonical_headers"
        /\ Len(calls[n].iter) = 2
        /\ calls[n].iter # calls[k].iter
        /\ calls[n].out = <<"h", "o", "s", "t", ";", "x", "-", "a">>

(***************************************************************************)
(* Request descriptors and signers.                                        *)
(***************************************************************************)
Signers ==
    {TestSigner,
     SignerNew(<<"i", "d">>, <<"k", "e", "y">>, <<<<"t", "o", "k">>>>)}

Methods == {<<"P", "O", "S", "T">>, <<"p", "o", "s", "t">>}

Uris == {<<>>, <<"/", "a">>}

SignQueryStrings == {<<>>, <<"b", "=", "2", "&", "a", "=", "1">>}

SignHeaderMaps ==
    {<<>>,
     (<<"C", "o", "n", "t", "e", "n", "t", "-", "T", "y", "p", "e">> :> <<"v">>)
        @@ (<<"H", "o", "s", "t">> :> <<" ", "v", " ">>),
     (<<"X", "-", "A">> :> <<"v">>) @@ (<<"X", "-", "A", "-", "B">> :> <<"a", " ", "b">>),
     (<<"H", "o", "s", "t">> :> <<"v">>) @@ (<<"h", "o", "s", "t">> :> <<"a", " ", "b">>)}

Payloads == {<<>>, <<"p">>}

Services == {<<"s", "m", "s">>, <<"c", "v", "m">>}

Regions == {<<"g", "z">>, <<"s", "h">>}

\* 1970-01-01 00:00:00, 2020-12-31 23:59:59, 2021-01-01 00:00:00 and
\* 2024-02-29 00:00:00, all UTC.
Timestamps == {0, 1609459199, 1609459200, 1709164800}

Requests ==
    [http_method : Methods, uri : Uris, query_string : SignQueryStrings,
     headers : SignHeaderMaps, payload : Payloads, service : Services,
     region : Regions, timestamp : Timestamps]

(***************************************************************************)
(* Signing: sign_request is called up to MaxCalls times on one request     *)
(* descriptor, the header map iterating in an order of its own each time.  *)
(***************************************************************************)
InitSign ==
    /\ signer \in Signers
    /\ args \in Requests
    /\ calls = <<>>
    /\ Quiet

SignRequest ==
    /\ Len(calls) < MaxCalls
    /\ \E iter \in IterationOrders(args.headers) :
          calls' = Append(calls, sign_request(signer, args, iter))
    /\ UNCHANGED <<signer, args, surroundings>>

NextSign == SignRequest

SpecSign == InitSign /\ [][NextSign]_vars

\* C1: any two invocations of sign_request on the same request descriptor and
\* credentials return the same signature, whatever the order in which the
\* header map handed out its entries in each.
C1_SignatureDeterministic ==
    \A m \in 1..Len(calls) : \A n \in 1..Len(calls) : calls[m].out = calls[n].out

\* Two invocations have gone through a map of two entries in different orders.
C1_Witness ==
    /\ Len(calls) >= 2
    /\ Len(calls[1].iter) = 2
    /\ calls[1].iter # calls[2].iter

\* C8: the canonical request is the six fields method, canonical URI,
\* canonical query string, canonical headers block, signed-headers string and
\* hashed payload, in that order, a single newline between two neighbours;
\* the method is the one given, an empty URI is "/", any other URI the one
\* given, and an empty field still has its place.
C8_SixFields ==
    \A n \in 1..Len(calls) :
        LET c == calls[n]
            canonical_headers == create_canonical_headers(args.headers, c.iter)
            fields == <<args.http_method,
                        IF args.uri = <<>> THEN <<"/">> ELSE args.uri,
                        create_canonical_query_string(args.query_string),
                        canonical_headers[1],
                        canonical_headers[2],
                        hash_payload(args.payload)>>
        IN  /\ c.canonical_request = Join(fields, NL)
            /\ Count(NL, c.canonical_request) = 5 + Count(NL, canonical_headers[1])

\* A lower-case method, an empty URI, an empty query string and an empty
\* header map have been made into a canonical request.
C8_Witness ==
    /\ calls # <<>>
    /\ args.http_method = <<"p", "o", "s", "t">>
    /\ args.uri = <<>>
    /\ args.query_string = <<>>
    /\ args.headers = <<>>
    /\ args.payload = <<>>
    /\ calls[1].canonical_request =
           <<"p", "o", "s", "t", NL, "/", NL, NL, NL, NL, NL, "{hex:{sha256:}}">>

\* The epoch seconds of the timestamps of the model, in decimal digits.
KnownEpochSeconds(timestamp) ==
    CASE timestamp = 0 -> <<"0">>
      [] timestamp = 1609459199 -> <<"1", "6", "0", "9", "4", "5", "9", "1", "9", "9">>
      [] timestamp = 1609459200 -> <<"1", "6", "0", "9", "4", "5", "9", "2", "0", "0">>
      [] timestamp = 1709164800 -> <<"1", "7", "0", "9", "1", "6", "4", "8", "0", "0">>

\* Their UTC dates, YYYYMMDD.
KnownUtcDate(timestamp) ==
    CASE timestamp = 0 -> <<"1", "9", "7", "0", "0", "1", "0", "1">>
      [] timestamp = 1609459199 -> <<"2", "0", "2", "0", "1", "2", "3", "1">>
      [] timestamp = 1609459200 -> <<"2", "0", "2", "1", "0", "1", "0", "1">>
      [] timestamp = 1709164800 -> <<"2", "0", "2", "4", "0", "2", "2", "9">>

\* C9: the string to sign is "TC3-HMAC-SHA256", the timestamp as epoch
\* seconds, the credential scope "{YYYYMMDD UTC date}/{service}/tc3_request"
\* and the hex SHA-256 of the canonical request, joined by single newlines in
\* that order.
C9_StringToSign ==
    \A n \in 1..Len(calls) :
        Split(calls[n].string_to_sign, NL) =
            <<Algorithm,
              KnownEpochSeconds(args.timestamp),
              KnownUtcDate(args.timestamp) \o <<"/">> \o args.service \o <<"/">>
                  \o <<"t", "c", "3", "_", "r", "e", "q", "u", "e", "s", "t">>,
              <<"{hex:{sha256:" \o Str(calls[n].canonical_request) \o "}}">>>>

\* A request has been signed for the last second of 2020-12-31 UTC.
C9_Witness ==
    /\ calls # <<>>
    /\ args.timestamp = 1609459199
    /\ Split(calls[1].string_to_sign, NL)[3] =
           <<"2", "0", "2", "0", "1", "2", "3", "1", "/", "s", "m", "s", "/",
             "t", "c", "3", "_", "r", "e", "q", "u", "e", "s", "t">>

\* C10: the date in the credential scope of the string to sign, the date
\* given to the first HMAC of the key chain and the epoch seconds in the
\* string to sign are those of the one timestamp argument.
C10_OneTimestamp ==
    \A n \in 1..Len(calls) :
        LET c == calls[n]
            fields == Split(c.string_to_sign, NL)
            date == KnownUtcDate(args.timestamp)
        IN  /\ fields[2] = KnownEpochSeconds(args.timestamp)
            /\ SubSeq(fields[3], 1, 8) = date
            /\ c.key_chain.date = date
            /\ c.key_chain.k_date =
                   <<"{hmac:TC3" \o Str(signer.secret_key) \o "|" \o Str(date) \o "}">>
            /\ c.out = <<"{hex:" \o Str(c.key_chain.signature) \o "}">>

\* A request has been signed for an instant whose UTC date is not the date
\* a clock ahead of UTC shows.
C10_Witness ==
    /\ calls # <<>>
    /\ args.timestamp = 1609459199
    /\ calls[1].key_chain.date = <<"2", "0", "2", "0", "1", "2", "3", "1">>
    /\ SubSeq(Split(calls[1].string_to_sign, NL)[3], 1, 8) = calls[1].key_chain.date

\* C11: the signature is made by four chained HMAC-SHA256 steps and no
\* other: the key "TC3" followed by the secret key over the date, the output
\* of that as the key over the service name, the output of that as the key
\* over the literal "tc3_request", the output of that as the key over the
\* string to sign; what is returned is the hex encoding of the fourth output
\* alone.
C11_FourChainedHmacs ==
    \A n \in 1..Len(calls) :
        LET c == calls[n]
            k == c.key_chain
        IN  /\ DOMAIN k = {"date", "k_date", "k_service", "k_signing", "signature"}
            /\ k.k_date =
                   <<"{hmac:TC3" \o Str(signer.secret_key) \o "|"
                     \o Str(KnownUtcDate(args.timestamp)) \o "}">>
            /\ k.k_service =
                   <<"{hmac:" \o k.k_date[1] \o "|" \o Str(args.service) \o "}">>
            /\ k.k_signing =
                   <<"{hmac:" \o k.k_service[1] \o "|tc3_request}">>
            /\ k.signature =
                   <<"{hmac:" \o k.k_signing[1] \o "|" \o Str(c.string_to_sign) \o "}">>
            /\ c.out = <<"{hex:" \o k.signature[1] \o "}">>

\* The request of the tests has been signed with the key "test_key" for the
\* service "sms" on 2021-01-01, and the signing key is the third of the chain.
C11_Witness ==
    /\ calls # <<>>
    /\ signer.secret_key = <<"t", "e", "s", "t", "_", "k", "e", "y">>
    /\ args.service = <<"s", "m", "s">>
    /\ args.timestamp = 1609459200
    /\ calls[1].key_chain.k_signing =
           <<"{hmac:{hmac:{hmac:TC3test_key|20210101}|sms}|tc3_request}">>

(***************************************************************************)
(* Specification SpecKeyChain: two Signers and two argument lists of        *)
(* calculate_signature, and the calls made with them.                      *)
(***************************************************************************)
\* Secret keys, two of which differ by a zero byte at the end only.
ChainSecretKeys == {<<"k">>, <<"k", NUL>>, <<"j">>}

ChainStringsToSign == {<<"s">>, <<"t">>}

ChainArguments ==
    [string_to_sign : ChainStringsToSign, service : Services,
     region : Regions, timestamp : Timestamps]

InitKeyChain ==
    /\ signer \in [1..2 -> {SignerNew(<<"i", "d">>, k, <<>>) : k \in ChainSecretKeys}]
    /\ args \in [1..2 -> ChainArguments]
    /\ calls = <<>>
    /\ Quiet

\* signer[i].calculate_signature(string_to_sign, service, region, timestamp)
CalculateSignature(i) ==
    /\ Len(calls) < MaxCalls
    /\ calls' = Append(calls,
           [op |-> "calculate_signature", of |-> i,
            key_chain |-> SignatureLocals(signer[i], args[i].string_to_sign,
                                          args[i].service, args[i].region,
                                          args[i].timestamp),
            out |-> calculate_signature(signer[i], args[i].string_to_sign,
                                        args[i].service, args[i].region,
                                        args[i].timestamp)])
    /\ UNCHANGED <<signer, args, surroundings>>

NextKeyChain == \E i \in 1..2 : CalculateSignature(i)

SpecKeyChain == InitKeyChain /\ [][NextKeyChain]_vars

\* The number of the inputs of the key chain in which the i-th and the j-th
\* computation differ: secret key, service, date, string to sign.
ChainDifferences(i, j) ==
    (IF signer[i].secret_key # signer[j].secret_key THEN 1 ELSE 0)
    + (IF args[i].service # args[j].service THEN 1 ELSE 0)
    + (IF KnownUtcDate(args[i].timestamp) # KnownUtcDate(args[j].timestamp) THEN 1 ELSE 0)
    + (IF args[i].string_to_sign # args[j].string_to_sign THEN 1 ELSE 0)

\* b is a followed by zero bytes and nothing else.
ZeroExtended(a, b) ==
    /\ Len(a) <= Len(b)
    /\ SubSeq(b, 1, Len(a)) = a
    /\ \A k \in (Len(a) + 1)..Len(b) : b[k] = NUL

\* Two secret keys that are the same up to zero bytes at the end.
SameUpToTrailingZeros(a, b) == ZeroExtended(a, b) \/ ZeroExtended(b, a)

\* C12 as stated: two computations that differ in exactly one of secret key,
\* service, date and string to sign return different signatures.
C12_AsStated ==
    \A m \in 1..Len(calls) : \A n \in 1..Len(calls) :
        ChainDifferences(calls[m].of, calls[n].of) = 1
            => calls[m].out # calls[n].out

\* C12: two computations that differ in exactly one of secret key, service,
\* date and string to sign, the secret keys not being the same up to zero
\* bytes at the end, return different signatures (HMAC-SHA256 and the hex
\* encoding taken to be free of collisions); two computations whose secret
\* keys are the same up to zero bytes at the end, all else equal, return the
\* same signature.
C12_SensitiveToEachInput ==
    \A m \in 1..Len(calls) : \A n \in 1..Len(calls) :
        LET i == calls[m].of
            j == calls[n].of
            padded == /\ signer[i].secret_key # signer[j].secret_key
                      /\ SameUpToTrailingZeros(signer[i].secret_key,
                                               signer[j].secret_key)
        IN  /\ (ChainDifferences(i, j) = 1 /\ ~padded) => calls[m].out # calls[n].out
            /\ (ChainDifferences(i, j) = 1 /\ padded) => calls[m].out = calls[n].out

\* Two signatures have been computed with the same secret key for two
\* requests that differ in the service alone.
C12_Witness ==
    /\ Len(calls) = 2
    /\ calls[1].of # calls[2].of
    /\ ChainDifferences(1, 2) = 1
    /\ signer[1].secret_key = signer[2].secret_key
    /\ args[1].service # args[2].service
    /\ calls[1].out # calls[2].out

(***************************************************************************)
(* Specification SpecAuthorization: a Signer and the arguments of          *)
(* create_authorization_header, and the calls made with them.              *)
(***************************************************************************)
\* Signatures: the one of the tests, and the empty string.
AuthSignatures == {<<"t", "e", "s", "t", "_", "s", "i", "g", "n", "a", "t", "u", "r", "e">>, <<>>}

\* Signed-headers strings: the one of the tests, and the empty string.
AuthSignedHeaders == {<<"c", "o", "n", "t", "e", "n", "t", "-", "t", "y", "p", "e", ";", "h", "o", "s", "t">>, <<>>}

InitAuthorization ==
    /\ signer \in Signers
    /\ args \in [signature : AuthSignatures, service : Services, region : Regions,
                 timestamp : Timestamps, signed_headers : AuthSignedHeaders]
    /\ calls = <<>>
    /\ Quiet

\* signer.create_authorization_header(signature, service, region, timestamp,
\* signed_headers)
CreateAuthorizationHeader ==
    /\ Len(calls) < MaxCalls
    /\ calls' = Append(calls,
           [op |-> "create_authorization_header",
            out |-> create_authorization_header(signer, args.signature, args.service,
                        args.region, args.timestamp, args.signed_headers)])
    /\ UNCHANGED <<signer, args, surroundings>>

NextAuthorization == CreateAuthorizationHeader

SpecAuthorization == InitAuthorization /\ [][NextAuthorization]_vars

\* C13: the authorization header is exactly
\* "TC3-HMAC-SHA256 Credential={secret_id}/{YYYYMMDD}/{service}/tc3_request,
\* SignedHeaders={signed_headers}, Signature={signature}", the fields
\* separated by a comma and one space, with nothing before or after.
C13_AuthorizationHeader ==
    \A n \in 1..Len(calls) :
        calls[n].out =
            <<"T", "C", "3", "-", "H", "M", "A", "C", "-", "S", "H", "A", "2", "5", "6", " ", "C", "r", "e", "d", "e", "n", "t", "i", "a", "l", "=">>
            \o signer.secret_id \o <<"/">> \o KnownUtcDate(args.timestamp) \o <<"/">>
            \o args.service
            \o <<"/", "t", "c", "3", "_", "r", "e", "q", "u", "e", "s", "t", ",", " ", "S", "i", "g", "n", "e", "d", "H", "e", "a", "d", "e", "r", "s", "=">>
            \o args.signed_headers
            \o <<",", " ", "S", "i", "g", "n", "a", "t", "u", "r", "e", "=">>
            \o args.signature

\* The header of the tests has been made: test_id, 2021-01-01, sms,
\* content-type;host, test_signature.
C13_Witness ==
    /\ calls # <<>>
    /\ signer.secret_id = <<"t", "e", "s", "t", "_", "i", "d">>
    /\ calls[1].out =
           <<"T", "C", "3", "-", "H", "M", "A", "C", "-", "S", "H", "A", "2", "5", "6", " ">>
           \o <<"C", "r", "e", "d", "e", "n", "t", "i", "a", "l", "=", "t", "e", "s", "t", "_", "i", "d", "/", "2", "0", "2", "1", "0", "1", "0", "1", "/", "s", "m", "s", "/", "t", "c", "3", "_", "r", "e", "q", "u", "e", "s", "t", ",", " ">>
           \o <<"S", "i", "g", "n", "e", "d", "H", "e", "a", "d", "e", "r", "s", "=", "c", "o", "n", "t", "e", "n", "t", "-", "t", "y", "p", "e", ";", "h", "o", "s", "t", ",", " ">>
           \o <<"S", "i", "g", "n", "a", "t", "u", "r", "e", "=", "t", "e", "s", "t", "_", "s", "i", "g", "n", "a", "t", "u", "r", "e">>

(***************************************************************************)
(* Specification SpecDigest: a payload, and the calls of hash_payload made *)
(* with it.                                                                *)
(***************************************************************************)
\* Payloads: every string of at most MaxPayloadLen characters a, b, c, and
\* two that fill a block of SHA-256 up to and beyond its padding.
DigestPayloads ==
    UNION {[1..n -> {"a", "b", "c"}] : n \in 0..MaxPayloadLen}
    \cup {[i \in 1..56 |-> "a"], [i \in 1..64 |-> "a"]}

InitDigest ==
    /\ signer = TestSigner
    /\ args \in [payload : DigestPayloads]
    /\ calls = <<>>
    /\ Quiet

\* signer.hash_payload(payload)
HashPayload ==
    /\ Len(calls) < MaxCalls
    /\ calls' = Append(calls,
           [op |-> "hash_payload",
            term |-> hash_payload(args.payload),
            out |-> hash_payload_digits(args.payload)])
    /\ UNCHANGED <<signer, args, surroundings>>

NextDigest == HashPayload

SpecDigest == InitDigest /\ [][NextDigest]_vars

\* The SHA-256 digests of the empty message, of "abc" and of 56 times "a",
\* in hexadecimal.
KnownSha256(payload) ==
    CASE payload = <<>> ->
           <<"e", "3", "b", "0", "c", "4", "4", "2", "9", "8", "f", "c", "1", "c", "1", "4",
              "9", "a", "f", "b", "f", "4", "c", "8", "9", "9", "6", "f", "b", "9", "2", "4",
              "2", "7", "a", "e", "4", "1", "e", "4", "6", "4", "9", "b", "9", "3", "4", "c",
              "a", "4", "9", "5", "9", "9", "1", "b", "7", "8", "5", "2", "b", "8", "5", "5">>
      [] payload = <<"a", "b", "c">> ->
           <<"b", "a", "7", "8", "1", "6", "b", "f", "8", "f", "0", "1", "c", "f", "e", "a",
              "4", "1", "4", "1", "4", "0", "d", "e", "5", "d", "a", "e", "2", "2", "2", "3",
              "b", "0", "0", "3", "6", "1", "a", "3", "9", "6", "1", "7", "7", "a", "9", "c",
              "b", "4", "1", "0", "f", "f", "6", "1", "f", "2", "0", "0", "1", "5", "a", "d">>
      [] payload = [i \in 1..56 |-> "a"] ->
           <<"b", "3", "5", "4", "3", "9", "a", "4", "a", "c", "6", "f", "0", "9", "4", "8",
              "b", "6", "d", "6", "f", "9", "e", "3", "c", "6", "a", "f", "0", "f", "5", "f",
              "5", "9", "0", "c", "e", "2", "0", "f", "1", "b", "d", "e", "7", "0", "9", "0",
              "e", "f", "7", "9", "7", "0", "6", "8", "6", "e", "c", "6", "7", "3", "8", "a">>

\* C14: hash_payload returns exactly 64 characters, each a digit or one of
\* the lowercase letters a to f, for every payload; the empty payload is
\* hashed like any other, its result being the SHA-256 of the empty message.
C14_SixtyFourLowercaseHex ==
    \A n \in 1..Len(calls) :
        LET out == calls[n].out
        IN  /\ Len(out) = 64
            /\ \A i \in 1..Len(out) :
                   out[i] \in {"0", "1", "2", "3", "4", "5", "6", "7", "8", "9",
                               "a", "b", "c", "d", "e", "f"}
            /\ args.payload \in {<<>>, <<"a", "b", "c">>, [i \in 1..56 |-> "a"]}
                   => out = KnownSha256(args.payload)
            /\ calls[n].term = <<"{hex:{sha256:" \o Str(args.payload) \o "}}">>

\* The empty payload has been hashed, and the result has letters in it.
C14_Witness ==
    /\ calls # <<>>
    /\ args.payload = <<>>
    /\ Len(calls[1].out) = 64
    /\ SubSeq(calls[1].out, 1, 8) = <<"e", "3", "b", "0", "c", "4", "4", "2">>

(***************************************************************************)
(* Specification SpecSigner: a Signer, the arguments of a caller, a clock  *)
(* that runs, and the calls of the Signer's functions made with the        *)
(* arguments, in any order.                                                *)
(***************************************************************************)
\* Arguments: an empty query string, one with a key twice and one with a
\* parameter without value; an empty header map and one whose names are the
\* same when lowercased; the stages at which the HMAC refuses its key.
SignerArguments ==
    [http_method : {<<"P", "O", "S", "T">>},
     uri : {<<>>},
     query_string : {<<>>, <<"a", "=", "1", "&", "a", "=", "2">>, <<"b", "&", "a">>},
     headers : {<<>>,
                (<<"H", "o", "s", "t">> :> <<"v">>) @@ (<<"h", "o", "s", "t">> :> <<"b">>)},
     payload : {<<>>, <<"p">>},
     service : {<<"s", "m", "s">>},
     region : {<<"g", "z">>},
     timestamp : {1609459199, 1709164800},
     signature : {<<"t", "e", "s", "t", "_", "s", "i", "g", "n", "a", "t", "u", "r", "e">>},
     rejected : {{}, {1}, {2, 4}}]

InitSigner ==
    /\ signer = SignerNew(<<"i", "d">>, <<"k", "e", "y">>, <<<<"t", "o", "k">>>>)
    /\ args \in SignerArguments
    /\ calls = <<>>
    /\ clock \in {0, 1609459199}
    /\ threads = <<>>
    /\ client = <<>>
    /\ effects = <<>>

\* Time passes.
Tick ==
    /\ \E now \in Timestamps : now > clock /\ clock' = now
    /\ UNCHANGED <<signer, args, calls, threads, client, effects>>

\* A call of a Signer function takes the Signer and the arguments by shared
\* reference (&self, &str, &HashMap): what it leaves behind is its result.
Returned(call) ==
    /\ Len(calls) < MaxCalls
    /\ calls' = Append(calls, call)
    /\ UNCHANGED <<signer, args, surroundings>>

\* signer.create_canonical_query_string(query_string)
QueryStringOp ==
    Returned([op |-> "create_canonical_query_string",
              result |-> Ok(create_canonical_query_string(args.query_string))])

\* signer.create_canonical_headers(headers)
HeadersOp(iter) ==
    Returned([op |-> "create_canonical_headers",
              result |-> Ok(create_canonical_headers(args.headers, iter))])

\* signer.create_canonical_request(http_method, uri, query_string, headers, payload)
CanonicalRequestOp(iter) ==
    Returned([op |-> "create_canonical_request",
              result |-> Ok(create_canonical_request(args.http_method, args.uri,
                                args.query_string, args.headers, iter, args.payload))])

\* signer.create_string_to_sign(canonical_request, service, region, timestamp)
StringToSignOp(iter) ==
    Returned([op |-> "create_string_to_sign",
              result |-> Ok(create_string_to_sign(
                                create_canonical_request(args.http_method, args.uri,
                                    args.query_string, args.headers, iter, args.payload),
                                args.service, args.region, args.timestamp))])

\* signer.create_authorization_header(signature, service, region, timestamp,
\* signed_headers), which returns a String.
AuthorizationHeaderOp(iter) ==
    Returned([op |-> "create_authorization_header",
              result |-> Ok(create_authorization_header(signer, args.signature,
                                args.service, args.region, args.timestamp,
                                get_signed_headers(args.headers, iter)))])

\* A sign_request that takes the time from the clock.
SignRequestNow(iter) ==
    /\ Len(calls) < MaxCalls
    /\ calls' = Append(calls,
           [op |-> "sign_request",
            locals |-> sign_request(signer, [args EXCEPT !.timestamp = clock], iter),
            result |-> sign_request_result(signer, [args EXCEPT !.timestamp = clock],
                                           iter, args.rejected)])
    /\ effects' = Append(effects, [kind |-> "clock", at |-> clock])
    /\ UNCHANGED <<signer, args, clock, threads, client>>

\* signer.sign_request(http_method, uri, query_string, headers, payload,
\* service, region, timestamp)
SignRequestOp(iter) ==
    Returned([op |-> "sign_request",
              locals |-> sign_request(signer, args, iter),
              result |-> sign_request_result(signer, args, iter, args.rejected)])

NextSigner ==
    \/ Tick
    \/ QueryStringOp
    \/ \E iter \in IterationOrders(args.headers) :
          \/ HeadersOp(iter)
          \/ CanonicalRequestOp(iter)
          \/ StringToSignOp(iter)
          \/ AuthorizationHeaderOp(iter)
          \/ SignRequestOp(iter)

SpecSigner == InitSigner /\ [][NextSigner]_vars

\* C15: the canonicalization and formatting functions return no error for
\* any input, the empty query string (whose canonical form is the empty
\* string), the empty header map and duplicate keys among them; sign_request
\* returns either the complete signature or a Signature error, nothing else.
C15_NoErrorButSignature ==
    \A n \in 1..Len(calls) :
        LET c == calls[n]
        IN  /\ c.op # "sign_request" => c.result.kind = "Ok"
            /\ (c.op = "create_canonical_query_string" /\ args.query_string = <<>>)
                   => c.result = [kind |-> "Ok", value |-> <<>>]
            /\ (c.op = "create_canonical_headers" /\ args.headers = <<>>)
                   => c.result = [kind |-> "Ok", value |-> <<<<NL>>, <<>>>>]
            /\ c.op = "sign_request" =>
                   \/ /\ c.result.kind = "Ok"
                      /\ c.result.value =
                             <<"{hex:" \o c.locals.key_chain.signature[1] \o "}">>
                   \/ /\ c.result.kind = "Signature"
                      /\ DOMAIN c.result = {"kind", "message"}

\* A query string with a key twice has been canonicalized, and sign_request
\* has ended with an error that came from the HMAC.
C15_Witness ==
    /\ args.query_string = <<"a", "=", "1", "&", "a", "=", "2">>
    /\ args.headers # <<>>
    /\ \E n \in 1..Len(calls) :
          /\ calls[n].op = "create_canonical_query_string"
          /\ calls[n].result.value = args.query_string
    /\ \E n \in 1..Len(calls) :
          /\ calls[n].op = "sign_request"
          /\ calls[n].result.kind = "Signature"

\* C16: every Signer operation leaves the header map, the query string and
\* the payload of the caller and the secret_id, secret_key and token of the
\* Signer as they were, and reaches neither the clock nor the outside world;
\* the instant in what sign_request and create_authorization_header return is
\* the timestamp argument, whatever the clock shows.
C16_FrameOfSignerOperations ==
    /\ [](\A n \in 1..Len(calls) :
            LET c == calls[n]
            IN  /\ c.op = "sign_request" =>
                       LET fields == Split(c.locals.string_to_sign, NL)
                       IN  /\ fields[2] = KnownEpochSeconds(args.timestamp)
                           /\ SubSeq(fields[3], 1, 8) = KnownUtcDate(args.timestamp)
                           /\ c.locals.key_chain.date = KnownUtcDate(args.timestamp)
                /\ c.op = "create_authorization_header" =>
                       SubSeq(c.result.value, 31, 38) = KnownUtcDate(args.timestamp))
    /\ [][/\ args' = args
          /\ signer' = signer
          /\ effects' = effects
          /\ calls' # calls => clock' = clock]_vars

\* sign_request and create_authorization_header have returned at a time
\* when the clock showed another day than the timestamp argument.
C16_Witness ==
    /\ Len(calls) = 2
    /\ calls[1].op = "sign_request"
    /\ calls[1].result.kind = "Ok"
    /\ calls[2].op = "create_authorization_header"
    /\ args.headers # <<>>
    /\ args.query_string # <<>>
    /\ args.payload # <<>>
    /\ signer.token # <<>>
    /\ args.timestamp = 1609459199
    /\ clock = 1709164800

(***************************************************************************)
(* Specification SpecThreads: MaxThreads threads share one &Signer and     *)
(* each calls sign_request with arguments of its own.  A call goes through *)
(* the three steps of the function body; the steps of different threads    *)
(* interleave in every order.                                              *)
(***************************************************************************)
Threads == 1..MaxThreads

\* A frame whose locals are those of the first thread.
LocalsShared(t) == 1

\* The frame that holds canonical_request and string_to_sign of the call of
\* thread t: they are `let` locals of the invocation.
LocalsOf(t) == t

InitThreads ==
    /\ signer \in Signers
    /\ args \in [Threads ->
                    [http_method : {<<"P", "O", "S", "T">>},
                     uri : {<<"/", "a">>},
                     query_string : {<<"b", "=", "2", "&", "a", "=", "1">>},
                     headers : {(<<"X", "-", "A">> :> <<"v">>)
                                @@ (<<"H", "o", "s", "t">> :> <<"a", " ", "b">>)},
                     payload : Payloads,
                     service : {<<"s", "m", "s">>},
                     region : {<<"g", "z">>},
                     timestamp : {1609459199, 1609459200}]]
    /\ calls = <<>>
    /\ threads = [t \in Threads |->
                     [pc |-> "called", canonical_request |-> <<>>,
                      string_to_sign |-> <<>>]]
    /\ clock = 0
    /\ client = <<>>
    /\ effects = <<>>

\* Step 1 of sign_request in thread t: create the canonical request.
ThreadCanonicalRequest(t) ==
    /\ threads[t].pc = "called"
    /\ \E iter \in IterationOrders(args[t].headers) :
          threads' =
              [[threads EXCEPT ![LocalsOf(t)].canonical_request =
                    create_canonical_request(args[t].http_method, args[t].uri,
                        args[t].query_string, args[t].headers, iter, args[t].payload)]
                  EXCEPT ![t].pc = "step 2"]
    /\ UNCHANGED <<signer, args, calls, clock, client, effects>>

\* Step 2: create the string to sign from the canonical request.
ThreadStringToSign(t) ==
    /\ threads[t].pc = "step 2"
    /\ threads' =
           [[threads EXCEPT ![LocalsOf(t)].string_to_sign =
                 create_string_to_sign(threads[LocalsOf(t)].canonical_request,
                     args[t].service, args[t].region, args[t].timestamp)]
               EXCEPT ![t].pc = "step 3"]
    /\ UNCHANGED <<signer, args, calls, clock, client, effects>>

\* Step 3: calculate the signature over the string to sign, and return it.
\* The record of the call tells which threads were inside sign_request then.
ThreadSignature(t) ==
    /\ threads[t].pc = "step 3"
    /\ calls' = Append(calls,
           [op |-> "sign_request", of |-> t,
            during |-> {u \in Threads \ {t} : threads[u].pc \in {"step 2", "step 3"}},
            out |-> calculate_signature(signer, threads[LocalsOf(t)].string_to_sign,
                        args[t].service, args[t].region, args[t].timestamp)])
    /\ threads' = [threads EXCEPT ![t].pc = "returned"]
    /\ UNCHANGED <<signer, args, clock, client, effects>>

NextThreads ==
    \E t \in Threads :
        \/ ThreadCanonicalRequest(t)
        \/ ThreadStringToSign(t)
        \/ ThreadSignature(t)

SpecThreads == InitThreads /\ [][NextThreads]_vars

\* C17: when several threads call sign_request on the same Signer at the
\* same time, each call returns the signature that the call returns when it
\* runs alone, however the steps of the calls interleave.
C17_AsWhenRunAlone ==
    \A n \in 1..Len(calls) :
        \A iter \in IterationOrders(args[calls[n].of].headers) :
            calls[n].out = sign_request(signer, args[calls[n].of], iter).out

\* Two threads with different arguments have returned different signatures,
\* and the first to return did so while the other was inside sign_request.
C17_Witness ==
    /\ Len(calls) = 2
    /\ calls[1].during # {}
    /\ args[1] # args[2]
    /\ calls[1].out # calls[2].out

(***************************************************************************)
(* Credential: new, set_token and validate.                                *)
(***************************************************************************)
\* Credential::new: the three values as given, nothing checked.
CredentialNew(secret_id, secret_key, token) ==
    [secret_id |-> secret_id, secret_key |-> secret_key, token |-> token]

\* A validate that asks for the secret id alone.
CredentialValidateIdOnly(self) ==
    IF self.secret_id = <<>> THEN Err("Auth", "Secret ID cannot be empty")
    ELSE Ok(<<>>)

\* Credential::validate; Ok(()) is Ok of the empty tuple.
CredentialValidate(self) ==
    IF self.secret_id = <<>> THEN Err("Auth", "Secret ID cannot be empty")
    ELSE IF self.secret_key = <<>> THEN Err("Auth", "Secret Key cannot be empty")
    ELSE Ok(<<>>)

(***************************************************************************)
(* Specification SpecCredential: a Credential is made from the arguments   *)
(* of the caller, its token is set and it is validated, in any order.      *)
(***************************************************************************)
\* Tokens: none, the empty one and one of three characters.
Tokens == {<<>>, <<<<>>>>, <<<<"t", "o", "k">>>>}

InitCredential ==
    /\ signer = <<>>
    /\ args \in [secret_id : {<<>>, <<" ">>, <<"i", "d">>},
                 secret_key : {<<>>, <<" ">>, <<"k", "e", "y">>},
                 token : Tokens]
    /\ calls = <<>>
    /\ Quiet

\* Credential::new(secret_id, secret_key, token)
NewCredential ==
    /\ client = <<>>
    /\ client' = [credential |->
                     CredentialNew(args.secret_id, args.secret_key, args.token)]
    /\ UNCHANGED <<signer, args, calls, clock, threads, effects>>

\* credential.set_token(token)
SetToken(token) ==
    /\ client # <<>>
    /\ client' = [client EXCEPT !.credential.token = token]
    /\ UNCHANGED <<signer, args, calls, clock, threads, effects>>

\* credential.validate()
ValidateCredential ==
    /\ client # <<>>
    /\ Len(calls) < MaxCalls
    /\ calls' = Append(calls,
           [op |-> "validate", self |-> client.credential,
            result |-> CredentialValidate(client.credential)])
    /\ UNCHANGED <<signer, args, surroundings>>

NextCredential ==
    \/ NewCredential
    \/ \E token \in Tokens : SetToken(token)
    \/ ValidateCredential

SpecCredential == InitCredential /\ [][NextCredential]_vars

\* C18: Credential::validate returns an Auth error exactly when the secret
\* id is empty or the secret key is empty, and Ok otherwise, whatever the
\* token is; Credential::new takes empty values as they are.
C18_AuthErrorIffEmpty ==
    /\ client # <<>> =>
           /\ client.credential.secret_id = args.secret_id
           /\ client.credential.secret_key = args.secret_key
    /\ \A n \in 1..Len(calls) :
           LET c == calls[n]
               empty == Len(c.self.secret_id) = 0 \/ Len(c.self.secret_key) = 0
           IN  /\ empty => c.result.kind = "Auth"
               /\ ~empty => c.result = [kind |-> "Ok", value |-> <<>>]

\* A Credential with a secret id and an empty secret key has been made and
\* validated twice, with a token and without, and refused both times.
C18_Witness ==
    /\ Len(calls) = 2
    /\ args.secret_id = <<"i", "d">>
    /\ args.secret_key = <<>>
    /\ calls[1].self.token # <<>>
    /\ calls[2].self.token = <<>>
    /\ calls[1].result.kind = "Auth"
    /\ calls[2].result.kind = "Auth"

(***************************************************************************)
(* Client.  Its Tc3Signer and sha256_hex come from the crate               *)
(* tencentcloud_sign_sdk, whose functions are terms over their arguments   *)
(* here.                                                                   *)
(***************************************************************************)
\* Tc3Signer::new(secret_id, secret_key, service, debug)
Tc3SignerNew(secret_id, secret_key, service, debug) ==
    [secret_id |-> secret_id, secret_key |-> secret_key, service |-> service,
     debug |-> debug]

\* Tc3Signer::sign(method, uri, query, canonical_headers, signed_headers,
\* hashed_payload, timestamp)
Tc3Sign(self, given) ==
    <<"{tc3:" \o Str(self.secret_key) \o "|" \o Str(self.service) \o "|"
      \o Str(given.method) \o "|" \o Str(given.uri) \o "|" \o Str(given.query)
      \o "|" \o Str(given.canonical_headers) \o "|" \o Str(given.signed_headers)
      \o "|" \o Str(given.hashed_payload) \o "|"
      \o Str(FormatDecimal(given.timestamp)) \o "}">>

\* Tc3Signer::create_authorization_header(signature, signed_headers)
Tc3AuthorizationHeader(self, signature, signed_headers) ==
    <<"{authorization:" \o Str(self.secret_id) \o "|" \o Str(signature) \o "|"
      \o Str(signed_headers) \o "}">>

\* serde_json::to_string(request): the JSON text of the request.
ToJson(request) == <<"{json:" \o Str(request) \o "}">>

\* ClientProfile::new() over HttpProfile::new(), with set_req_method and
\* set_endpoint: the request method and the endpoint "e" on the defaults.
\* proxy_host and proxy_port are Options.
ClientProfileNew(req_method) ==
    [req_method |-> req_method, endpoint |-> <<"e">>,
     req_timeout |-> 60, connect_timeout |-> 60, keep_alive |-> FALSE,
     proxy_host |-> <<>>, proxy_port |-> <<>>,
     user_agent |-> <<"T", "e", "n", "c", "e", "n", "t", "C", "l", "o", "u", "d", "-", "S", "D", "K", "-", "R", "u", "s", "t", "/", "1", ".", "0", ".", "0">>,
     api_version |-> <<"2", "0", "2", "1", "-", "0", "1", "-", "1", "1">>,
     language |-> <<"e", "n", "-", "U", "S">>, debug |-> FALSE]

\* HttpProfile::get_proxy_url: Some("http://{host}:{port}") when both are set.
get_proxy_url(profile) ==
    IF profile.proxy_host # <<>> /\ profile.proxy_port # <<>>
    THEN <<<<"h", "t", "t", "p", ":", "/", "/">> \o profile.proxy_host[1] \o <<":">>
           \o FormatDecimal(profile.proxy_port[1])>>
    ELSE <<>>

\* The reqwest::Client that with_profile builds: the settings given to its
\* builder, the durations in seconds.  The proxy URLs here are ones that
\* reqwest::Proxy::all accepts.
HttpClientBuild(profile) ==
    [timeout |-> profile.req_timeout,
     connect_timeout |-> profile.connect_timeout,
     tcp_keepalive |-> IF profile.keep_alive THEN <<60>> ELSE <<>>,
     user_agent |-> profile.user_agent,
     proxy |-> get_proxy_url(profile)]

\* Client::with_profile, and Client::new with ClientProfile::new().  The
\* request in progress has its position (pc) and its locals with the Client.
ClientWithProfile(credential, region, profile) ==
    [credential |-> credential,
     region |-> region,
     profile |-> profile,
     http_client |-> HttpClientBuild(profile),
     service |-> <<"s", "m", "s">>,
     signer |-> Tc3SignerNew(credential.secret_id, credential.secret_key,
                             <<"s", "m", "s">>, profile.debug),
     pc |-> "idle",
     locals |-> <<>>,
     result |-> <<>>]

\* The locals of make_request at its start; mark is the length of the log of
\* the outside world then.
NoLocals(mark) ==
    [payload |-> <<>>, timestamp |-> <<>>, headers |-> <<>>, signed |-> <<>>,
     mark |-> mark]

\* What the request in progress has caused in the outside world.
RequestEffects == SubSeq(effects, client.locals.mark + 1, Len(effects))

\* return from make_request: the caller has the result.
MakeRequestReturns(locals, result, caused) ==
    /\ client' = [client EXCEPT !.pc = "returned", !.locals = locals,
                                !.result = <<result>>]
    /\ calls' = Append(calls,
           [op |-> "send_sms", credential |-> client.credential,
            locals |-> locals, result |-> result, effects |-> caused])

\* A make_request that does not look at the credential.
MakeRequestValidateNothing ==
    /\ client.pc \in {"idle", "returned"}
    /\ Len(calls) < MaxCalls
    /\ client' = [client EXCEPT !.pc = "validated",
                                !.locals = NoLocals(Len(effects)),
                                !.result = <<>>]
    /\ UNCHANGED <<signer, args, calls, clock, threads, effects>>

\* client.send_sms(request), make_request up to self.credential.validate()?
MakeRequestValidate ==
    /\ client.pc \in {"idle", "returned"}
    /\ Len(calls) < MaxCalls
    /\ LET valid == CredentialValidate(client.credential)
       IN  IF valid.kind # "Ok"
           THEN /\ MakeRequestReturns(NoLocals(Len(effects)), valid, <<>>)
                /\ UNCHANGED <<signer, args, clock, threads, effects>>
           ELSE /\ client' = [client EXCEPT !.pc = "validated",
                                            !.locals = NoLocals(Len(effects)),
                                            !.result = <<>>]
                /\ UNCHANGED <<signer, args, calls, clock, threads, effects>>

\* let payload = serde_json::to_string(request)?
MakeRequestSerialize ==
    /\ client.pc = "validated"
    /\ client' = [client EXCEPT !.pc = "serialized",
                                !.locals.payload = <<ToJson(args.request)>>]
    /\ UNCHANGED <<signer, args, calls, clock, threads, effects>>

\* let timestamp = Utc::now()
MakeRequestNow ==
    /\ client.pc = "serialized"
    /\ client' = [client EXCEPT !.pc = "stamped", !.locals.timestamp = <<clock>>]
    /\ effects' = Append(effects, [kind |-> "clock", at |-> clock])
    /\ UNCHANGED <<signer, args, calls, clock, threads>>

\* The header map of make_request before the Authorization header.
RequestHeaders(self, action, timestamp) ==
    LET always ==
            (<<"C", "o", "n", "t", "e", "n", "t", "-", "T", "y", "p", "e">> :> <<"a", "p", "p", "l", "i", "c", "a", "t", "i", "o", "n", "/", "j", "s", "o", "n">>)
            @@ (<<"H", "o", "s", "t">> :> self.profile.endpoint)
            @@ (<<"X", "-", "T", "C", "-", "A", "c", "t", "i", "o", "n">> :> action)
            @@ (<<"X", "-", "T", "C", "-", "V", "e", "r", "s", "i", "o", "n">> :> self.profile.api_version)
            @@ (<<"X", "-", "T", "C", "-", "R", "e", "g", "i", "o", "n">> :> self.region)
            @@ (<<"X", "-", "T", "C", "-", "T", "i", "m", "e", "s", "t", "a", "m", "p">> :> FormatDecimal(timestamp))
            @@ (<<"X", "-", "T", "C", "-", "L", "a", "n", "g", "u", "a", "g", "e">> :> self.profile.language)
    IN  IF self.credential.token # <<>>
        THEN always @@ (<<"X", "-", "T", "C", "-", "T", "o", "k", "e", "n">> :> self.credential.token[1])
        ELSE always

\* A signer input whose host line carries the URL of the request.
SignerInputOfUrl(self, payload, timestamp) ==
    [method |-> self.profile.req_method,
     uri |-> <<"/">>,
     query |-> <<>>,
     canonical_headers |->
         <<"c", "o", "n", "t", "e", "n", "t", "-", "t", "y", "p", "e", ":", "a", "p", "p", "l", "i", "c", "a", "t", "i", "o", "n", "/", "j", "s", "o", "n">>
         \o <<NL>> \o <<"h", "o", "s", "t", ":", "h", "t", "t", "p", "s", ":", "/", "/">>
         \o self.profile.endpoint \o <<NL>>,
     signed_headers |-> <<"c", "o", "n", "t", "e", "n", "t", "-", "t", "y", "p", "e", ";", "h", "o", "s", "t">>,
     hashed_payload |-> hex_encode(Sha256(payload)),
     timestamp |-> timestamp]

\* What make_request gives to the signer.
SignerInput(self, payload, timestamp) ==
    [method |-> self.profile.req_method,
     uri |-> <<"/">>,
     query |-> <<>>,
     canonical_headers |->
         <<"c", "o", "n", "t", "e", "n", "t", "-", "t", "y", "p", "e", ":", "a", "p", "p", "l", "i", "c", "a", "t", "i", "o", "n", "/", "j", "s", "o", "n">>
         \o <<NL>> \o <<"h", "o", "s", "t", ":">> \o self.profile.endpoint \o <<NL>>,
     signed_headers |-> <<"c", "o", "n", "t", "e", "n", "t", "-", "t", "y", "p", "e", ";", "h", "o", "s", "t">>,
     hashed_payload |-> hex_encode(Sha256(payload)),
     timestamp |-> timestamp]

\* A make_request that reads the clock again for the signer.
MakeRequestSignAtSecondReading ==
    /\ client.pc = "stamped"
    /\ LET given == SignerInput(client, client.locals.payload[1], clock)
           authorization ==
               Tc3AuthorizationHeader(client.signer, Tc3Sign(client.signer, given),
                                      given.signed_headers)
       IN  client' =
               [client EXCEPT
                   !.pc = "signed",
                   !.locals.signed = <<given>>,
                   !.locals.headers =
                       RequestHeaders(client, args.action, client.locals.timestamp[1])
                       @@ (<<"A", "u", "t", "h", "o", "r", "i", "z", "a", "t", "i", "o", "n">> :> authorization)]
    /\ effects' = Append(effects, [kind |-> "clock", at |-> clock])
    /\ UNCHANGED <<signer, args, calls, clock, threads>>

\* make_request from the header map to the Authorization header.
MakeRequestSign ==
    /\ client.pc = "stamped"
    /\ LET given == SignerInput(client, client.locals.payload[1],
                                client.locals.timestamp[1])
           authorization ==
               Tc3AuthorizationHeader(client.signer, Tc3Sign(client.signer, given),
                                      given.signed_headers)
       IN  client' =
               [client EXCEPT
                   !.pc = "signed",
                   !.locals.signed = <<given>>,
                   !.locals.headers =
                       RequestHeaders(client, args.action, client.locals.timestamp[1])
                       @@ (<<"A", "u", "t", "h", "o", "r", "i", "z", "a", "t", "i", "o", "n">> :> authorization)]
    /\ UNCHANGED <<signer, args, calls, clock, threads, effects>>

\* str::starts_with
StartsWith(s, prefix) ==
    Len(s) >= Len(prefix) /\ SubSeq(s, 1, Len(prefix)) = prefix

\* HttpProfile::get_full_endpoint
get_full_endpoint(endpoint) ==
    IF \/ StartsWith(endpoint, <<"h", "t", "t", "p", ":", "/", "/">>)
       \/ StartsWith(endpoint, <<"h", "t", "t", "p", "s", ":", "/", "/">>)
    THEN endpoint
    ELSE <<"h", "t", "t", "p", "s", ":", "/", "/">> \o endpoint

\* The request that make_request hands to the HTTP client, and the HTTP
\* client (via) that sends it.
HttpRequest(self, locals) ==
    [kind |-> "http",
     method |-> IF self.profile.req_method = <<"G", "E", "T">>
                THEN <<"G", "E", "T">> ELSE <<"P", "O", "S", "T">>,
     url |-> get_full_endpoint(self.profile.endpoint),
     headers |-> locals.headers,
     body |-> IF self.profile.req_method = <<"P", "O", "S", "T">>
              THEN locals.payload ELSE <<>>,
     via |-> self.http_client]

\* request_builder.send().await?: the request goes out; either the transport
\* fails, and make_request returns the Network error, or a reply is awaited.
MakeRequestSend(delivered) ==
    /\ client.pc = "signed"
    /\ effects' = Append(effects, HttpRequest(client, client.locals))
    /\ IF delivered
       THEN /\ client' = [client EXCEPT !.pc = "sent"]
            /\ UNCHANGED calls
       ELSE MakeRequestReturns(client.locals, Err("Network", "error sending request"),
                               Append(RequestEffects, HttpRequest(client, client.locals)))
    /\ UNCHANGED <<signer, args, clock, threads>>

(***************************************************************************)
(* The reply to a request.  A serde_json::Value is a record of its type t  *)
(* and its content v: the members of an object as a function of their      *)
(* names, the characters of a string, the items of an array.               *)
(***************************************************************************)
\* Value::get(key): Some(member) of an object that has it.
JsonGet(value, key) ==
    IF value.t = "object" /\ key \in DOMAIN value.v THEN <<value.v[key]>> ELSE <<>>

\* Value::as_str: Some(characters) of a string.
JsonAsStr(value) == IF value.t = "string" THEN <<value.v>> ELSE <<>>

\* serde_json::from_value::<SendSmsResponse>: Some(response) of an object
\* with a string RequestId and an array SendStatusSet, each item an object
\* with the strings SerialNo, PhoneNumber, Code, Message and IsoCode and the
\* number Fee.
FromValue(value) ==
    LET IsA(member, t) == member # <<>> /\ member[1].t = t
        IsStatus(item) ==
            /\ \A name \in {"SerialNo", "PhoneNumber", "Code", "Message", "IsoCode"} :
                   IsA(JsonGet(item, name), "string")
            /\ IsA(JsonGet(item, "Fee"), "number")
        Status(item) ==
            [phone_number |-> item.v["PhoneNumber"].v, code |-> item.v["Code"].v,
             message |-> item.v["Message"].v]
    IN  IF /\ IsA(JsonGet(value, "RequestId"), "string")
           /\ IsA(JsonGet(value, "SendStatusSet"), "array")
           /\ \A i \in DOMAIN value.v["SendStatusSet"].v :
                  IsStatus(value.v["SendStatusSet"].v[i])
        THEN <<[send_status_set |->
                    [i \in DOMAIN value.v["SendStatusSet"].v |->
                        Status(value.v["SendStatusSet"].v[i])],
                request_id |-> value.v["RequestId"].v]>>
        ELSE <<>>

\* Replies: an HTTP status and a body, which either cannot be read, or is
\* text that is not JSON (json is None), or is the text of a JSON value.
Replies ==
    LET String(chars) == [t |-> "string", v |-> chars]
        Object(members) == [t |-> "object", v |-> members]
        Body(value) == [readable |-> TRUE, json |-> <<value>>]
        Unreadable == [readable |-> FALSE, json |-> <<>>]
        NotJson == [readable |-> TRUE, json |-> <<>>]
        Error == ("Code" :> String(<<"A", "u", "t", "h">>))
                 @@ ("Message" :> String(<<"b", "a", "d">>))
        Sent == ("SerialNo" :> String(<<"1">>)) @@ ("PhoneNumber" :> String(<<"+", "8", "6">>))
                @@ ("Fee" :> [t |-> "number", v |-> 1]) @@ ("Code" :> String(<<"O", "k">>))
                @@ ("Message" :> String(<<"s", "e", "n", "d">>))
                @@ ("IsoCode" :> String(<<"C", "N">>))
        Id == "RequestId" :> String(<<"r", "1">>)
        Reply(status, body) == [kind |-> "reply", status |-> status, body |-> body]
    IN  {Reply(404, Body(Object("Response" :> Object(("Error" :> Object(Error)) @@ Id)))),
         Reply(200, Unreadable),
         Reply(204, NotJson),
         Reply(200, Body(Object("Response" :> Object(("Error" :> Object(Error)) @@ Id)))),
         Reply(200, Body(Object("Response" :> Object("Error" :> [t |-> "null", v |-> <<>>])))),
         Reply(200, Body(Object(<<>>))),
         Reply(200, Body(Object("Response" :>
             Object(("SendStatusSet" :> [t |-> "array", v |-> <<Object(Sent)>>]) @@ Id)))),
         Reply(200, Body(Object("Response" :> Object(Id))))}

\* A classification that parses the body before it looks at the status.
ClassifyReplyBodyFirst(reply) ==
    LET response == IF reply.body.json = <<>> THEN <<>>
                    ELSE JsonGet(reply.body.json[1], "Response")
        error == IF response = <<>> THEN <<>> ELSE JsonGet(response[1], "Error")
    IN  IF error # <<>>
        THEN [kind |-> "Api", code |-> <<"A", "u", "t", "h">>,
              message |-> <<"b", "a", "d">>, request_id |-> <<>>]
        ELSE IF reply.status < 200 \/ reply.status > 299
        THEN Err("Other", "HTTP error")
        ELSE Err("Json", "expected value")

\* make_request from the status check to its end: what it returns for a
\* reply.  The message of the HTTP error has the status and the text of the
\* body in the code.
ClassifyReply(reply) ==
    IF reply.status < 200 \/ reply.status > 299
    THEN Err("Other", "HTTP error")
    ELSE IF ~reply.body.readable
    THEN Err("Network", "error decoding response body")
    ELSE IF reply.body.json = <<>>
    THEN Err("Json", "expected value")
    ELSE LET response_json == reply.body.json[1]
             response == JsonGet(response_json, "Response")
             error == IF response = <<>> THEN <<>> ELSE JsonGet(response[1], "Error")
             OrElse(option, default) == IF option = <<>> THEN default ELSE option[1]
             AndThenStr(option) == IF option = <<>> THEN <<>> ELSE JsonAsStr(option[1])
         IN  IF error # <<>>
             THEN [kind |-> "Api",
                   code |-> OrElse(AndThenStr(JsonGet(error[1], "Code")),
                                   <<"U", "n", "k", "n", "o", "w", "n">>),
                   message |-> OrElse(AndThenStr(JsonGet(error[1], "Message")),
                                      <<"U", "n", "k", "n", "o", "w", "n", " ", "e", "r", "r", "o", "r">>),
                   request_id |-> AndThenStr(JsonGet(response[1], "RequestId"))]
             ELSE IF response = <<>>
             THEN Err("Other", "Invalid response format")
             ELSE IF FromValue(response[1]) = <<>>
             THEN Err("Json", "invalid type")
             ELSE Ok(FromValue(response[1])[1])

\* The reply arrives and make_request returns.  The profile of this Client
\* has debug off: lines 246-249 log nothing.
MakeRequestReply(reply) ==
    /\ client.pc = "sent"
    /\ effects' = Append(effects, reply)
    /\ MakeRequestReturns(client.locals, ClassifyReply(reply),
                          Append(RequestEffects, reply))
    /\ UNCHANGED <<signer, args, clock, threads>>

(***************************************************************************)
(* Specification SpecClient: a Client made from a credential and a         *)
(* profile sends requests, one after the other, while the clock runs.      *)
(***************************************************************************)
InitClient ==
    /\ signer = <<>>
    /\ args \in [secret_id : {<<>>, <<"i", "d">>},
                 secret_key : {<<>>, <<"k", "e", "y">>},
                 token : {<<>>, <<<<"t", "o", "k">>>>},
                 req_method : {<<"P", "O", "S", "T">>, <<"G", "E", "T">>,
                               <<"P", "U", "T">>, <<"p", "o", "s", "t">>},
                 action : {<<"S", "e", "n", "d", "S", "m", "s">>},
                 request : {<<"r">>}]
    /\ client = ClientWithProfile(
                    CredentialNew(args.secret_id, args.secret_key, args.token),
                    <<"g", "z">>,
                    ClientProfileNew(args.req_method))
    /\ calls = <<>>
    /\ clock \in {0, 1609459199}
    /\ threads = <<>>
    /\ effects = <<>>

NextClient ==
    \/ Tick
    \/ MakeRequestValidate
    \/ MakeRequestSerialize
    \/ MakeRequestNow
    \/ MakeRequestSign
    \/ \E delivered \in BOOLEAN : MakeRequestSend(delivered)
    \/ \E reply \in Replies : MakeRequestReply(reply)

SpecClient == InitClient /\ [][NextClient]_vars

(***************************************************************************)
(* Specification SpecSetters: between its requests, the Client is given    *)
(* another credential, another profile or another region.  The setters     *)
(* take &mut self: none runs while a request borrows the Client.           *)
(***************************************************************************)
\* Profiles: the defaults; the defaults with debug on; one in which every
\* setting differs from the default.
ClientProfiles ==
    {ClientProfileNew(<<"P", "O", "S", "T">>),
     [ClientProfileNew(<<"P", "O", "S", "T">>) EXCEPT !.debug = TRUE],
     [ClientProfileNew(<<"G", "E", "T">>) EXCEPT
         !.endpoint = <<"h", "t", "t", "p", ":", "/", "/", "e", "2">>,
         !.req_timeout = 30, !.connect_timeout = 10, !.keep_alive = TRUE,
         !.proxy_host = <<<<"p">>>>, !.proxy_port = <<8080>>,
         !.user_agent = <<"a">>, !.api_version = <<"2">>,
         !.language = <<"z", "h", "-", "C", "N">>]}

\* A set_credential that leaves the signer as it is.
SetCredentialOnly(credential) ==
    /\ client.pc \in {"idle", "returned"}
    /\ client' = [client EXCEPT !.credential = credential]
    /\ UNCHANGED <<signer, args, calls, clock, threads, effects>>

\* client.set_credential(credential)
SetCredential(credential) ==
    /\ client.pc \in {"idle", "returned"}
    /\ client' = [client EXCEPT
                     !.credential = credential,
                     !.signer = Tc3SignerNew(credential.secret_id, credential.secret_key,
                                             <<"s", "m", "s">>, client.profile.debug)]
    /\ UNCHANGED <<signer, args, calls, clock, threads, effects>>

\* client.set_profile(profile)
SetProfile(profile) ==
    /\ client.pc \in {"idle", "returned"}
    /\ client' = [client EXCEPT
                     !.profile = profile,
                     !.signer = Tc3SignerNew(client.credential.secret_id,
                                             client.credential.secret_key,
                                             <<"s", "m", "s">>, profile.debug)]
    /\ UNCHANGED <<signer, args, calls, clock, threads, effects>>

\* client.set_region(region)
SetRegion(region) ==
    /\ client.pc \in {"idle", "returned"}
    /\ client' = [client EXCEPT !.region = region]
    /\ UNCHANGED <<signer, args, calls, clock, threads, effects>>

InitSetters ==
    /\ signer = <<>>
    /\ args \in [profile : ClientProfiles,
                 action : {<<"S", "e", "n", "d", "S", "m", "s">>},
                 request : {<<"r">>}]
    /\ client = ClientWithProfile(CredentialNew(<<"i", "d">>, <<"k", "e", "y">>, <<>>),
                                  <<"g", "z">>, args.profile)
    /\ calls = <<>>
    /\ clock = 1609459199
    /\ threads = <<>>
    /\ effects = <<>>

NextSetters ==
    \/ \E credential \in {CredentialNew(<<"i", "d">>, <<"k", "e", "y">>, <<>>),
                          CredentialNew(<<"i", "2">>, <<"k", "2">>, <<<<"t", "o", "k">>>>)} :
          SetCredential(credential)
    \/ \E profile \in ClientProfiles : SetProfile(profile)
    \/ \E region \in Regions : SetRegion(region)
    \/ MakeRequestValidate
    \/ MakeRequestSerialize
    \/ MakeRequestNow
    \/ MakeRequestSign
    \/ \E delivered \in BOOLEAN : MakeRequestSend(delivered)

SpecSetters == InitSetters /\ [][NextSetters]_vars

\* The credential lacks its secret id or its secret key.
Incomplete(credential) == credential.secret_id = <<>> \/ credential.secret_key = <<>>

\* C19: send_sms on a Client whose credential has an empty secret id or an
\* empty secret key returns an error, and at that time no body has been
\* serialized, the clock has not been read, nothing has been signed and no
\* network request has been sent.
C19_RefusedBeforeAnythingElse ==
    /\ Incomplete(client.credential) => client.pc \in {"idle", "returned"}
    /\ \A n \in 1..Len(calls) :
           Incomplete(calls[n].credential) =>
               /\ calls[n].result.kind = "Auth"
               /\ calls[n].locals.payload = <<>>
               /\ calls[n].locals.timestamp = <<>>
               /\ calls[n].locals.signed = <<>>
               /\ calls[n].effects = <<>>
               /\ Len(effects) = calls[n].locals.mark

\* send_sms has returned on a Client whose secret id is there and whose
\* secret key is empty, at a time when the clock had run.
C19_Witness ==
    /\ calls # <<>>
    /\ client.credential.secret_id # <<>>
    /\ client.credential.secret_key = <<>>
    /\ client.pc = "returned"
    /\ client.result[1].kind = "Auth"
    /\ clock = 1709164800

\* The clock readings among the effects of a request.
ClockReadings(caused) == SelectSeq(caused, LAMBDA e : e.kind = "clock")

\* The X-TC-Timestamp header and the timestamp given to the signer are the
\* epoch seconds of the one clock reading among the effects.
OneReading(locals, caused) ==
    LET readings == ClockReadings(caused)
    IN  /\ Len(readings) = 1
        /\ locals.timestamp = <<readings[1].at>>
        /\ locals.signed[1].timestamp = readings[1].at
        /\ locals.headers[<<"X", "-", "T", "C", "-", "T", "i", "m", "e", "s", "t", "a", "m", "p">>] = KnownEpochSeconds(readings[1].at)
        /\ \A i \in 1..Len(caused) :
               caused[i].kind = "http" =>
                   caused[i].headers[<<"X", "-", "T", "C", "-", "T", "i", "m", "e", "s", "t", "a", "m", "p">>] = KnownEpochSeconds(readings[1].at)

\* C20: in every request of the Client, the value of the X-TC-Timestamp
\* header and the timestamp given to the signer are the epoch seconds of one
\* single reading of the clock.
C20_OneClockReading ==
    /\ client.pc \in {"signed", "sent"} => OneReading(client.locals, RequestEffects)
    /\ \A n \in 1..Len(calls) :
           calls[n].locals.signed # <<>> => OneReading(calls[n].locals, calls[n].effects)

\* A request has been signed and sent, and the clock has moved on since it
\* was read.
C20_Witness ==
    /\ client.pc = "sent"
    /\ client.locals.timestamp = <<1609459199>>
    /\ clock = 1709164800
    /\ effects[Len(effects)].kind = "http"

\* The requests sent among the effects of a request of the Client.
HttpRequestsIn(caused) == SelectSeq(caused, LAMBDA e : e.kind = "http")

\* C21: in every request of the Client, for every req_method, the body whose
\* SHA-256 is signed is the body that is transmitted.
C21_SignedBodyIsSentBody ==
    LET Same(locals, caused) ==
            \A i \in 1..Len(caused) :
                caused[i].kind = "http" =>
                    locals.signed[1].hashed_payload
                        = hex_encode(Sha256(IF caused[i].body = <<>> THEN <<>>
                                            ELSE caused[i].body[1]))
    IN  /\ client.pc = "sent" => Same(client.locals, RequestEffects)
        /\ \A n \in 1..Len(calls) :
               calls[n].locals.signed # <<>> => Same(calls[n].locals, calls[n].effects)

\* C27: in every request of the Client, for every value of req_method, the
\* HTTP method given to the signer is the method with which the request is
\* sent.
C27_SignedMethodIsSentMethod ==
    LET Same(locals, caused) ==
            \A i \in 1..Len(caused) :
                caused[i].kind = "http" => locals.signed[1].method = caused[i].method
    IN  /\ client.pc = "sent" => Same(client.locals, RequestEffects)
        /\ \A n \in 1..Len(calls) :
               calls[n].locals.signed # <<>> => Same(calls[n].locals, calls[n].effects)

\* The signer was given the signed-headers string "content-type;host" and the
\* two lines "content-type:" and "host:" with the values of the Content-Type
\* and Host headers of the request sent; the request sent has the five
\* X-TC-* headers, and X-TC-Token with the token of a credential that has one.
SignsContentTypeAndHost(credential, locals, caused) ==
    LET given == locals.signed[1]
        sent == HttpRequestsIn(caused)
    IN  /\ given.signed_headers = <<"c", "o", "n", "t", "e", "n", "t", "-", "t", "y", "p", "e", ";", "h", "o", "s", "t">>
        /\ Len(sent) = 1
        /\ given.canonical_headers =
               <<"c", "o", "n", "t", "e", "n", "t", "-", "t", "y", "p", "e", ":">>
               \o sent[1].headers[<<"C", "o", "n", "t", "e", "n", "t", "-", "T", "y", "p", "e">>]
               \o <<NL>> \o <<"h", "o", "s", "t", ":">>
               \o sent[1].headers[<<"H", "o", "s", "t">>] \o <<NL>>
        /\ {<<"X", "-", "T", "C", "-", "A", "c", "t", "i", "o", "n">>,
            <<"X", "-", "T", "C", "-", "V", "e", "r", "s", "i", "o", "n">>,
            <<"X", "-", "T", "C", "-", "R", "e", "g", "i", "o", "n">>,
            <<"X", "-", "T", "C", "-", "T", "i", "m", "e", "s", "t", "a", "m", "p">>,
            <<"X", "-", "T", "C", "-", "L", "a", "n", "g", "u", "a", "g", "e">>,
            <<"A", "u", "t", "h", "o", "r", "i", "z", "a", "t", "i", "o", "n">>}
               \subseteq DOMAIN sent[1].headers
        /\ IF credential.token = <<>>
           THEN <<"X", "-", "T", "C", "-", "T", "o", "k", "e", "n">> \notin DOMAIN sent[1].headers
           ELSE /\ <<"X", "-", "T", "C", "-", "T", "o", "k", "e", "n">> \in DOMAIN sent[1].headers
                /\ sent[1].headers[<<"X", "-", "T", "C", "-", "T", "o", "k", "e", "n">>]
                       = credential.token[1]

\* C23: every request of the Client signs exactly the headers content-type
\* and host: the signed-headers string is "content-type;host", the signed
\* host and content-type values are those of the Host and Content-Type
\* headers sent; the X-TC-* headers and X-TC-Token are sent and not signed.
C23_SignsContentTypeAndHost ==
    /\ client.pc = "sent"
           => SignsContentTypeAndHost(client.credential, client.locals, RequestEffects)
    /\ \A n \in 1..Len(calls) :
           calls[n].locals.signed # <<>>
               => SignsContentTypeAndHost(calls[n].credential, calls[n].locals,
                                          calls[n].effects)

\* A request with the token of its credential in X-TC-Token has been sent
\* with the method GET.
C23_Witness ==
    /\ client.pc = "sent"
    /\ client.credential.token # <<>>
    /\ Len(HttpRequestsIn(RequestEffects)) = 1
    /\ HttpRequestsIn(RequestEffects)[1].method = <<"G", "E", "T">>

\* The replies among the effects of a request of the Client.
RepliesIn(caused) == SelectSeq(caused, LAMBDA e : e.kind = "reply")

\* C26: make_request classifies the reply in a fixed order: a non-success
\* status gives an Other error whatever the body; otherwise a body that is
\* not JSON gives a Json error; otherwise a Response.Error member gives an
\* Api error with its Code and Message (defaults "Unknown" and "Unknown
\* error") and Response.RequestId; otherwise a missing Response member gives
\* an Other error; Ok is returned only when none of these apply and the
\* Response member deserializes.
C26_ClassifiedInOrder ==
    \A n \in 1..Len(calls) :
        LET c == calls[n]
            reply == RepliesIn(c.effects)[1]
            success == reply.status >= 200 /\ reply.status <= 299
            whole == reply.body.readable
            json == reply.body.json
            response == IF json = <<>> THEN <<>> ELSE JsonGet(json[1], "Response")
            error == IF response = <<>> THEN <<>> ELSE JsonGet(response[1], "Error")
            StrOf(object, name, default) ==
                IF JsonGet(object, name) # <<>> /\ JsonGet(object, name)[1].t = "string"
                THEN JsonGet(object, name)[1].v ELSE default
        IN  IF RepliesIn(c.effects) = <<>> THEN c.result.kind # "Ok"
            ELSE /\ ~success => c.result.kind = "Other"
                 /\ (success /\ whole /\ json = <<>>) => c.result.kind = "Json"
                 /\ (success /\ whole /\ error # <<>>) =>
                        /\ c.result.kind = "Api"
                        /\ c.result.code = StrOf(error[1], "Code", <<"U", "n", "k", "n", "o", "w", "n">>)
                        /\ c.result.message = StrOf(error[1], "Message", <<"U", "n", "k", "n", "o", "w", "n", " ", "e", "r", "r", "o", "r">>)
                        /\ c.result.request_id
                               = IF JsonGet(response[1], "RequestId") = <<>> THEN <<>>
                                 ELSE <<StrOf(response[1], "RequestId", <<>>)>>
                 /\ (success /\ whole /\ json # <<>> /\ response = <<>>) =>
                        c.result = [kind |-> "Other", message |-> "Invalid response format"]
                 /\ c.result.kind = "Ok" =>
                        /\ success /\ whole /\ json # <<>>
                        /\ response # <<>> /\ error = <<>>
                        /\ FromValue(response[1]) = <<c.result.value>>

\* A first request was answered 404 with a Response.Error in the body and
\* has returned an Other error; a second one was answered 200 with a null
\* Response.Error and has returned the Api error of the defaults.
C26_Witness ==
    /\ Len(calls) = 2
    /\ RepliesIn(calls[1].effects) # <<>>
    /\ RepliesIn(calls[1].effects)[1].status = 404
    /\ calls[1].result.kind = "Other"
    /\ calls[2].result = [kind |-> "Api", code |-> <<"U", "n", "k", "n", "o", "w", "n">>,
                          message |-> <<"U", "n", "k", "n", "o", "w", "n", " ", "e", "r", "r", "o", "r">>,
                          request_id |-> <<>>]

\* The Authorization header of a request is the one that a signer made from
\* the credential gives for what was signed.
SignedWith(credential, locals) ==
    LET made == [secret_id |-> credential.secret_id, secret_key |-> credential.secret_key,
                 service |-> <<"s", "m", "s">>, debug |-> FALSE]
    IN  locals.headers[<<"A", "u", "t", "h", "o", "r", "i", "z", "a", "t", "i", "o", "n">>]
            = Tc3AuthorizationHeader(made, Tc3Sign(made, locals.signed[1]),
                                     locals.signed[1].signed_headers)

\* C22: after any sequence of set_credential, set_profile and set_region,
\* the signer of the Client is built from its current credential and the
\* debug flag of its current profile, and no request is signed with a
\* credential that was replaced.
C22_SignerOfCurrentCredential ==
    /\ client.signer = [secret_id |-> client.credential.secret_id,
                        secret_key |-> client.credential.secret_key,
                        service |-> <<"s", "m", "s">>,
                        debug |-> client.profile.debug]
    /\ client.pc \in {"signed", "sent"} => SignedWith(client.credential, client.locals)
    /\ \A n \in 1..Len(calls) :
           calls[n].locals.signed # <<>> => SignedWith(calls[n].credential, calls[n].locals)

\* A request was signed with the first credential; then the credential, the
\* profile and the region were replaced and a second request has been signed
\* and sent.
C22_Witness ==
    /\ Len(calls) = 1
    /\ calls[1].credential.secret_id = <<"i", "d">>
    /\ calls[1].locals.signed # <<>>
    /\ client.pc = "sent"
    /\ client.credential.secret_id = <<"i", "2">>
    /\ client.profile.debug
    /\ client.region = <<"s", "h">>

\* C30: after any sequence of set_profile, the request timeout, connect
\* timeout, keep-alive, proxy and user agent with which the next request is
\* sent are those of the current profile of the Client.
C30_TransportOfCurrentProfile ==
    client.pc = "sent" => effects[Len(effects)].via = HttpClientBuild(client.profile)

(***************************************************************************)
(* Specification SpecRegion: one request descriptor and one pair of        *)
(* secrets; each call is made with a region of its own, on a Signer made   *)
(* from the secrets with a token of its own.                               *)
(***************************************************************************)
InitRegion ==
    /\ signer \in Signers
    /\ args \in [http_method : {<<"P", "O", "S", "T">>}, uri : {<<"/">>},
                 query_string : {<<>>},
                 headers : {(<<"C", "o", "n", "t", "e", "n", "t", "-", "T", "y", "p", "e">> :> <<"v">>)
                                @@ (<<"H", "o", "s", "t">> :> <<"h">>)},
                 payload : {<<"p">>}, service : Services,
                 timestamp : {1609459199, 1709164800}]
    /\ calls = <<>>
    /\ Quiet

\* Signer::new(secret_id, secret_key, token).sign_request(http_method, uri,
\* query_string, headers, payload, service, region, timestamp)
SignRequestIn(region, token, iter) ==
    /\ Len(calls) < MaxCalls
    /\ calls' = Append(calls,
           [op |-> "sign_request", region |-> region, token |-> token,
            out |-> sign_request(SignerNew(signer.secret_id, signer.secret_key, token),
                                 [region |-> region] @@ args, iter).out])
    /\ UNCHANGED <<signer, args, surroundings>>

\* The same, followed by create_authorization_header(signature, service,
\* region, timestamp, signed_headers) on the signature it returned.
AuthorizationHeaderIn(region, token, iter) ==
    /\ Len(calls) < MaxCalls
    /\ LET self == SignerNew(signer.secret_id, signer.secret_key, token)
           signature == sign_request(self, [region |-> region] @@ args, iter).out
       IN  calls' = Append(calls,
               [op |-> "create_authorization_header", region |-> region,
                token |-> token,
                out |-> create_authorization_header(self, signature, args.service,
                            region, args.timestamp,
                            get_signed_headers(args.headers, iter))])
    /\ UNCHANGED <<signer, args, surroundings>>

NextRegion ==
    \E region \in Regions, token \in Tokens, iter \in IterationOrders(args.headers) :
        \/ SignRequestIn(region, token, iter)
        \/ AuthorizationHeaderIn(region, token, iter)

SpecRegion == InitRegion /\ [][NextRegion]_vars

\* C28: the signature returned by sign_request and the header returned by
\* create_authorization_header do not depend on the region argument or on
\* the Signer's token: two calls that differ in nothing else return the same.
C28_RegionAndTokenIgnored ==
    \A m \in 1..Len(calls) : \A n \in 1..Len(calls) :
        calls[m].op = calls[n].op => calls[m].out = calls[n].out

\* sign_request has been called for two regions with one token, and has
\* returned a signature.
C28_Witness ==
    /\ Len(calls) = 2
    /\ calls[1].op = "sign_request" /\ calls[2].op = "sign_request"
    /\ calls[1].region # calls[2].region
    /\ calls[1].token = calls[2].token
    /\ calls[1].out # <<>>

(***************************************************************************)
(* SendSmsRequest::validate.  It returns Result<(), String>: Ok(()) or the *)
(* Err of a message.                                                       *)
(***************************************************************************)
\* A validate that refuses a set of 200 numbers too.
SendSmsRequestValidateBelowLimit(self) ==
    IF Len(self.phone_number_set) >= 200
    THEN [kind |-> "Err", message |-> "Phone number set cannot exceed 200 numbers"]
    ELSE Ok(<<>>)

\* request.validate(); str::len is the length in bytes, and the phone
\* numbers here are ASCII.
SendSmsRequestValidate(self) ==
    LET Malformed(phone) ==
            /\ ~StartsWith(phone, <<"+">>)
            /\ ~StartsWith(phone, <<"0", "0", "8", "6">>)
            /\ ~StartsWith(phone, <<"8", "6">>)
            /\ Len(phone) # 11
        malformed == {i \in DOMAIN self.phone_number_set :
                         Malformed(self.phone_number_set[i])}
        first == CHOOSE i \in malformed : \A j \in malformed : i <= j
    IN  IF self.phone_number_set = <<>>
        THEN [kind |-> "Err", message |-> "Phone number set cannot be empty"]
        ELSE IF Len(self.phone_number_set) > 200
        THEN [kind |-> "Err", message |-> "Phone number set cannot exceed 200 numbers"]
        ELSE IF self.sms_sdk_app_id = <<>>
        THEN [kind |-> "Err", message |-> "SMS SDK App ID cannot be empty"]
        ELSE IF self.template_id = <<>>
        THEN [kind |-> "Err", message |-> "Template ID cannot be empty"]
        ELSE IF malformed # {}
        THEN [kind |-> "Err",
              message |-> "Invalid phone number format: "
                          \o Str(self.phone_number_set[first])]
        ELSE Ok(<<>>)

(***************************************************************************)
(* SendStatus and SendSmsResponse.                                         *)
(***************************************************************************)
\* A status that counts "ok" and "OK" as success too.
is_success_in_any_case(status) ==
    status.code \in {<<"O", "k">>, <<"o", "k">>, <<"O", "K">>}

\* SendStatus::is_success
is_success(status) == status.code = <<"O", "k">>

\* SendSmsResponse::is_all_success
is_all_success(self) ==
    \A i \in DOMAIN self.send_status_set : is_success(self.send_status_set[i])

\* SendSmsResponse::success_count
success_count(self) ==
    Len(SelectSeq(self.send_status_set, LAMBDA status : is_success(status)))

\* SendSmsResponse::failed_count
failed_count(self) ==
    Len(SelectSeq(self.send_status_set, LAMBDA status : ~is_success(status)))

\* SendSmsResponse::get_failed_numbers
get_failed_numbers(self) ==
    LET failed == SelectSeq(self.send_status_set, LAMBDA status : ~is_success(status))
    IN  [i \in DOMAIN failed |-> <<failed[i].phone_number, failed[i].message>>]

\* SendSmsResponse::get_successful_numbers
get_successful_numbers(self) ==
    LET sent == SelectSeq(self.send_status_set, LAMBDA status : is_success(status))
    IN  [i \in DOMAIN sent |-> sent[i].phone_number]

(***************************************************************************)
(* Specification SpecModels: a SendSmsRequest that is validated, or a      *)
(* SendSmsResponse that is read.                                           *)
(***************************************************************************)
\* The most entries of a send_status_set.
MaxStatuses == 3

\* Phone numbers: with each of the prefixes alone and before digits, of 10,
\* 11 and 12 digits, the beginning of a prefix, and the empty string.
PhoneNumbers ==
    {<<"+">>, <<"8", "6">>, <<"0", "0", "8", "6">>, <<"0", "0", "8">>, <<>>,
     <<"+", "8", "6", "1", "3", "8">>, <<"8", "6", "1", "3", "8">>,
     <<"1", "3", "8", "0", "0", "0", "0", "0", "0", "0">>,
     <<"1", "3", "8", "0", "0", "0", "0", "0", "0", "0", "0">>,
     <<"1", "3", "8", "0", "0", "0", "0", "0", "0", "0", "0", "0">>}

\* Phone number sets: none, one or two numbers, and 199, 200 and 201 numbers
\* of which the last is any of the numbers.
PhoneNumberSets ==
    {<<>>}
    \cup {<<p>> : p \in PhoneNumbers}
    \cup {<<p, q>> : p \in {<<"+">>, <<"0", "0", "8">>}, q \in PhoneNumbers}
    \cup {[i \in 1..n |-> IF i < n THEN <<"+", "8", "6", "1", "3", "8">> ELSE p] :
             n \in {199, 200, 201}, p \in PhoneNumbers}

\* Send statuses: delivered, refused, and with codes that differ from "Ok"
\* in case only or are empty.
SendStatuses ==
    {[phone_number |-> <<"1">>, code |-> <<"O", "k">>, message |-> <<"s">>],
     [phone_number |-> <<"2">>, code |-> <<"F">>, message |-> <<"m">>],
     [phone_number |-> <<"3">>, code |-> <<"o", "k">>, message |-> <<>>],
     [phone_number |-> <<"4">>, code |-> <<>>, message |-> <<"e">>]}

RECURSIVE StatusSets(_)
StatusSets(n) ==
    IF n = 0 THEN {<<>>}
    ELSE LET shorter == StatusSets(n - 1)
         IN  shorter \cup {Append(s, status) : s \in {t \in shorter : Len(t) = n - 1},
                                               status \in SendStatuses}

InitModels ==
    /\ signer = <<>>
    /\ args \in {[request |-> [phone_number_set |-> set, sms_sdk_app_id |-> app,
                               template_id |-> template]] :
                    set \in PhoneNumberSets,
                    app \in {<<>>, <<"1", "4">>}, template \in {<<>>, <<"1">>}}
                \cup {[response |-> [send_status_set |-> set, request_id |-> <<"r">>]] :
                         set \in StatusSets(MaxStatuses)}
    /\ calls = <<>>
    /\ Quiet

\* request.validate()
ValidateRequest ==
    /\ "request" \in DOMAIN args
    /\ calls = <<>>
    /\ calls' = <<[op |-> "validate", result |-> SendSmsRequestValidate(args.request)]>>
    /\ UNCHANGED <<signer, args, surroundings>>

\* The functions of a response, each called once.
ReadResponse ==
    /\ "response" \in DOMAIN args
    /\ calls = <<>>
    /\ calls' = <<[op |-> "response",
                   is_all_success |-> is_all_success(args.response),
                   success_count |-> success_count(args.response),
                   failed_count |-> failed_count(args.response),
                   get_failed_numbers |-> get_failed_numbers(args.response),
                   get_successful_numbers |-> get_successful_numbers(args.response)]>>
    /\ UNCHANGED <<signer, args, surroundings>>

NextModels == ValidateRequest \/ ReadResponse

SpecModels == InitModels /\ [][NextModels]_vars

\* C24: validate returns Err exactly when the phone number set is empty, or
\* has more than 200 numbers, or sms_sdk_app_id is empty, or template_id is
\* empty, or some number that starts with none of '+', "0086", "86" has a
\* length other than 11; otherwise it returns Ok.  A set of exactly 200
\* numbers is accepted.
C24_ErrExactlyWhen ==
    \A n \in 1..Len(calls) :
        calls[n].op = "validate" =>
            LET r == args.request
                set == r.phone_number_set
                Prefixed(phone) ==
                    \/ (Len(phone) >= 1 /\ phone[1] = "+")
                    \/ (Len(phone) >= 2 /\ SubSeq(phone, 1, 2) = <<"8", "6">>)
                    \/ (Len(phone) >= 4 /\ SubSeq(phone, 1, 4) = <<"0", "0", "8", "6">>)
                refused ==
                    \/ Len(set) = 0
                    \/ Len(set) > 200
                    \/ Len(r.sms_sdk_app_id) = 0
                    \/ Len(r.template_id) = 0
                    \/ \E i \in 1..Len(set) : ~Prefixed(set[i]) /\ Len(set[i]) # 11
            IN  /\ calls[n].result.kind = (IF refused THEN "Err" ELSE "Ok")
                /\ calls[n].result.kind \in {"Err", "Ok"}

\* A set of exactly 200 prefixed numbers has been validated with both ids
\* set, and was accepted.
C24_Witness ==
    /\ calls # <<>>
    /\ calls[1].op = "validate"
    /\ Len(args.request.phone_number_set) = 200
    /\ calls[1].result.kind = "Ok"

\* C25: for every SendSmsResponse, success_count + failed_count is the
\* number of entries of send_status_set, is_all_success holds exactly when
\* failed_count is 0, get_successful_numbers and get_failed_numbers have
\* success_count and failed_count entries in the order of the set, and an
\* entry is successful exactly when its code is "Ok".
C25_CountsAndOrder ==
    \A n \in 1..Len(calls) :
        calls[n].op = "response" =>
            LET c == calls[n]
                set == args.response.send_status_set
                okay == [i \in 1..Len(set) |-> set[i].code = <<"O", "k">>]
                numbers == [i \in 1..Len(set) |-> set[i].phone_number]
                pairs == [i \in 1..Len(set) |-> <<set[i].phone_number, set[i].message>>]
            IN  /\ c.success_count + c.failed_count = Len(set)
                /\ c.is_all_success <=> c.failed_count = 0
                /\ c.success_count = Cardinality({i \in 1..Len(set) : okay[i]})
                /\ Len(c.get_successful_numbers) = c.success_count
                /\ Len(c.get_failed_numbers) = c.failed_count
                /\ c.get_successful_numbers = Subsequence(numbers, okay)
                /\ c.get_failed_numbers
                       = Subsequence(pairs, [i \in 1..Len(set) |-> ~okay[i]])

\* A response of three entries has been read: one delivered between one
\* refused and one whose code is "ok".
C25_Witness ==
    /\ calls # <<>>
    /\ calls[1].op = "response"
    /\ calls[1].get_successful_numbers = <<<<"1">>>>
    /\ calls[1].get_failed_numbers = <<<<<<"2">>, <<"m">>>>, <<<<"3">>, <<>>>>>>

====
